---- MODULE Spec2Model ----
(***************************************************************************)
(* Model of the documentation retrieval core of synergyde-mcp:            *)
(*   - the topic chunker   (lib/parser/chunker.ts)                         *)
(*   - the search index    (lib/search/index.ts)                           *)
(* Text is modelled character by character: a string is a sequence of      *)
(* one-character strings, so that trimming, splitting, the heading regex    *)
(* and the tokenizer are computed as the code computes them.  Positions     *)
(* are 1-based here and 0-based in the source.                              *)
(***************************************************************************)
EXTENDS Integers, Sequences, FiniteSets, TLC

(***************************************************************************)
(* Generic helpers                                                         *)
(***************************************************************************)
MinOf(S) == CHOOSE x \in S : \A y \in S : x <= y
MaxOf(S) == CHOOSE x \in S : \A y \in S : x >= y

RECURSIVE Concat(_)
Concat(ss) == IF ss = <<>> THEN <<>> ELSE Head(ss) \o Concat(Tail(ss))

RECURSIVE SeqsUpTo(_, _)
SeqsUpTo(S, n) ==
  IF n = 0 THEN {<<>>}
  ELSE LET shorter == SeqsUpTo(S, n - 1)
       IN  shorter \cup {Append(q, x) : q \in shorter, x \in S}

(***************************************************************************)
(* Characters and the JavaScript string primitives the code uses           *)
(***************************************************************************)
NL == "\n"
SP == " "

\* \s of a JavaScript regular expression, and the characters trim() strips
IsSpace(c) == c \in {" ", "\n", "\t"}

\* String.prototype.trim
trim(s) ==
  LET keep == {i \in 1..Len(s) : ~IsSpace(s[i])}
  IN  IF keep = {} THEN <<>> ELSE SubSeq(s, MinOf(keep), MaxOf(keep))

\* number of consecutive characters from position p on that satisfy a class
RECURSIVE HashRun(_, _)
HashRun(s, p) == IF p <= Len(s) /\ s[p] = "#" THEN 1 + HashRun(s, p + 1) ELSE 0

RECURSIVE SpaceRun(_, _)
SpaceRun(s, p) == IF p <= Len(s) /\ IsSpace(s[p]) THEN 1 + SpaceRun(s, p + 1) ELSE 0

\* position of the first "\n" at or after q, Len(s)+1 when there is none
RECURSIVE LineEnd(_, _)
LineEnd(s, q) == IF q > Len(s) \/ s[q] = NL THEN q ELSE LineEnd(s, q + 1)

\* String.prototype.repeat for "#"
RECURSIVE Hashes(_)
Hashes(n) == IF n <= 0 THEN <<>> ELSE <<"#">> \o Hashes(n - 1)

(***************************************************************************)
(* chunker.ts                                                              *)
(***************************************************************************)
estimateTokens(text) == (Len(text) + 3) \div 4

\* One match of /^(#{1,6})\s+(.+)$/gm attempted at position p.
\* ^ needs a line start; #{1,6} must be followed by whitespace, so the whole
\* run of '#' is taken and must be 1..6 long; \s+ is greedy over spaces AND
\* newlines and backtracks until the next character is not a newline; (.+)
\* then runs to the end of that line.  index 0 means "no match here".
HeadingAt(s, p) ==
  LET h  == HashRun(s, p)
      w  == SpaceRun(s, p + h)
      ks == {k \in 1..w : p + h + k <= Len(s) /\ s[p + h + k] # NL}
  IN  IF (p = 1 \/ s[p - 1] = NL) /\ h >= 1 /\ h <= 6 /\ ks # {}
      THEN LET q == p + h + MaxOf(ks)
               e == LineEnd(s, q)
           IN  [index |-> p, level |-> h, title |-> trim(SubSeq(s, q, e - 1)), end |-> e]
      ELSE [index |-> 0, level |-> 0, title |-> <<>>, end |-> 0]

\* the loop `while ((match = headingRegex.exec(text)) !== null)`
RECURSIVE headingMatches(_, _)
headingMatches(s, p) ==
  IF p > Len(s) THEN <<>>
  ELSE LET m == HeadingAt(s, p)
       IN  IF m.index # 0 THEN <<m>> \o headingMatches(s, m.end)
           ELSE headingMatches(s, p + 1)

\* end of the separator /\n\s*\n/ that starts at p, 0 when none starts there
ParaSepEnd(s, p) ==
  IF s[p] # NL THEN 0
  ELSE LET run   == SpaceRun(s, p)
           cands == {j \in (p + 1)..(p + run - 1) : s[j] = NL}
       IN  IF cands = {} THEN 0 ELSE MaxOf(cands)

\* text.split(/\n\s*\n/)
RECURSIVE SplitBlank(_, _, _)
SplitBlank(s, segStart, p) ==
  IF p > Len(s) THEN <<SubSeq(s, segStart, Len(s))>>
  ELSE LET e == ParaSepEnd(s, p)
       IN  IF e > 0 THEN <<SubSeq(s, segStart, p - 1)>> \o SplitBlank(s, e + 1, e + 1)
           ELSE SplitBlank(s, segStart, p + 1)

\* text.split(/\n\s*\n/).filter((p) => p.trim())
Paragraphs(s) == SelectSeq(SplitBlank(s, 1, 1), LAMBDA para : trim(para) # <<>>)

\* chunks.push({topic_id, chunk_index: chunkIndex++, text: cur.trim(),
\*              token_count: estimateTokens(cur)})
\* faulty variant: the counter is never advanced
NextIndexStuck(i) == i
\* chunkIndex++
NextIndex(i) == i + 1
\* The text is trimmed; the count is taken from the untrimmed buffer.
PushChunk(st, topicId, cur) ==
  [chunks |-> Append(st.chunks,
                     [topic_id |-> topicId, chunk_index |-> st.idx,
                      text |-> trim(cur), token_count |-> estimateTokens(cur)]),
   idx    |-> NextIndex(st.idx),
   cur    |-> st.cur]

\* `#${"#".repeat(level - 1)} ${title}\n\n`
HeadingPrefix(sec) == <<"#">> \o Hashes(sec.level - 1) \o <<SP>> \o sec.title \o <<NL, NL>>

\* the section's rendered form (introductory content has no heading)
SectionText(sec) == IF sec.level = 0 THEN sec.content ELSE HeadingPrefix(sec) \o sec.content

\* the ad hoc minimum length that keeps a heading-only buffer from being emitted
MinLength(sec) == IF sec.level = 0 THEN 10 ELSE Len(sec.title) + 10

\* chunkBodyText, no headings: `for (const paragraph of paragraphs)`
RECURSIVE PackParagraphs(_, _, _, _)
PackParagraphs(paras, st, topicId, B) ==
  IF paras = <<>> THEN st
  ELSE LET para == Head(paras)
           next == IF estimateTokens(st.cur) + estimateTokens(para) > B /\ st.cur # <<>>
                   THEN [PushChunk(st, topicId, st.cur) EXCEPT !.cur = para]
                   ELSE [st EXCEPT !.cur = IF st.cur # <<>> THEN st.cur \o <<NL, NL>> \o para
                                            ELSE para]
       IN  PackParagraphs(Tail(paras), next, topicId, B)

\* `if (currentChunk.trim()) chunks.push(...)`
FlushRest(st, topicId) ==
  IF trim(st.cur) # <<>> THEN PushChunk(st, topicId, st.cur).chunks ELSE st.chunks

\* the sections array: introductory content, then one section per heading
IntroSection(s, hm) ==
  IF hm # <<>> /\ hm[1].index > 1 /\ trim(SubSeq(s, 1, hm[1].index - 1)) # <<>>
  THEN <<[level |-> 0, title |-> <<>>, content |-> trim(SubSeq(s, 1, hm[1].index - 1))]>>
  ELSE <<>>

HeadingSection(s, hm, i) ==
  LET startIndex   == hm[i].index
      endIndex     == IF i < Len(hm) THEN hm[i + 1].index ELSE Len(s) + 1
      lineEnd      == LineEnd(s, startIndex)
      contentStart == IF lineEnd <= Len(s) THEN lineEnd + 1 ELSE Len(s) + 1
  IN  [level |-> hm[i].level, title |-> hm[i].title,
       content |-> trim(SubSeq(s, contentStart, endIndex - 1))]

Sections(s, hm) == IntroSection(s, hm) \o [i \in 1..Len(hm) |-> HeadingSection(s, hm, i)]

\* faulty variant: the chunk after a push starts with the paragraph alone
RECURSIVE SplitSectionBare(_, _, _, _, _)
SplitSectionBare(paras, st, sec, topicId, B) ==
  IF paras = <<>> THEN st
  ELSE LET para == Head(paras)
           next == IF estimateTokens(st.cur) + estimateTokens(para) > B
                      /\ Len(trim(st.cur)) > MinLength(sec)
                   THEN [PushChunk(st, topicId, st.cur) EXCEPT !.cur = para]
                   ELSE [st EXCEPT !.cur = st.cur \o para \o <<NL, NL>>]
       IN  SplitSectionBare(Tail(paras), next, sec, topicId, B)

\* splitting one oversized section: `for (const paragraph of paragraphs)`;
\* st.cur holds sectionChunk
RECURSIVE SplitSection(_, _, _, _, _)
SplitSection(paras, st, sec, topicId, B) ==
  IF paras = <<>> THEN st
  ELSE LET para == Head(paras)
           next == IF estimateTokens(st.cur) + estimateTokens(para) > B
                      /\ Len(trim(st.cur)) > MinLength(sec)
                   THEN [PushChunk(st, topicId, st.cur) EXCEPT
                           !.cur = IF sec.level = 0 THEN para ELSE HeadingPrefix(sec) \o para]
                   ELSE [st EXCEPT !.cur = st.cur \o para \o <<NL, NL>>]
       IN  SplitSection(Tail(paras), next, sec, topicId, B)

\* the tail of a split section becomes currentChunk only above the minimum length
KeepTail(st, sec) == IF Len(trim(st.cur)) > MinLength(sec) THEN st ELSE [st EXCEPT !.cur = <<>>]

\* `for (const section of sections)`
RECURSIVE GroupSections(_, _, _, _)
GroupSections(secs, st, topicId, B) ==
  IF secs = <<>> THEN st
  ELSE LET sec  == Head(secs)
           text == SectionText(sec)
           next ==
             IF estimateTokens(text) > B
             THEN LET saved == IF st.cur # <<>>
                               THEN [PushChunk(st, topicId, st.cur) EXCEPT !.cur = <<>>]
                               ELSE st
                      start == [saved EXCEPT !.cur = IF sec.level = 0 THEN <<>>
                                                     ELSE HeadingPrefix(sec)]
                  IN  KeepTail(SplitSection(Paragraphs(sec.content), start, sec, topicId, B), sec)
             ELSE IF estimateTokens(st.cur) + estimateTokens(text) > B /\ st.cur # <<>>
             THEN [PushChunk(st, topicId, st.cur) EXCEPT !.cur = text]
             ELSE [st EXCEPT !.cur = IF st.cur # <<>> THEN st.cur \o <<NL, NL>> \o text
                                      ELSE text]
       IN  GroupSections(Tail(secs), next, topicId, B)

EmptyState == [chunks |-> <<>>, idx |-> 0, cur |-> <<>>]

\* faulty variant: no test for a blank body, and the last buffer is always pushed
chunkBodyTextUnguarded(topicId, bodyText, maxChunkSize) ==
  LET hm == headingMatches(bodyText, 1)
      st == IF hm = <<>>
            THEN PackParagraphs(Paragraphs(bodyText), EmptyState, topicId, maxChunkSize)
            ELSE GroupSections(Sections(bodyText, hm), EmptyState, topicId, maxChunkSize)
  IN  PushChunk(st, topicId, st.cur).chunks

chunkBodyText(topicId, bodyText, maxChunkSize) ==
  IF trim(bodyText) = <<>> THEN <<>>
  ELSE LET hm == headingMatches(bodyText, 1)
       IN  IF hm = <<>>
           THEN FlushRest(PackParagraphs(Paragraphs(bodyText), EmptyState, topicId, maxChunkSize),
                          topicId)
           ELSE FlushRest(GroupSections(Sections(bodyText, hm), EmptyState, topicId, maxChunkSize),
                          topicId)

\* chunkTopic, re-chunking: the parts of an oversized chunk, cut at the start of
\* every heading match (text before the first heading is a part of its own)
RECURSIVE PartsFrom(_, _, _)
PartsFrom(s, hm, lastIndex) ==
  IF hm = <<>>
  THEN IF lastIndex <= Len(s) THEN <<SubSeq(s, lastIndex, Len(s))>> ELSE <<>>
  ELSE IF Head(hm).index > lastIndex
       THEN <<SubSeq(s, lastIndex, Head(hm).index - 1)>> \o PartsFrom(s, Tail(hm), Head(hm).index)
       ELSE PartsFrom(s, Tail(hm), Head(hm).index)

HeadingParts(s) == PartsFrom(s, headingMatches(s, 1), 1)

\* part.split(/(?<=[.!?])\s+/)
RECURSIVE SplitSentences(_, _, _)
SplitSentences(s, segStart, p) ==
  IF p > Len(s) THEN <<SubSeq(s, segStart, Len(s))>>
  ELSE IF p > 1 /\ s[p - 1] \in {".", "!", "?"} /\ IsSpace(s[p])
       THEN <<SubSeq(s, segStart, p - 1)>>
            \o SplitSentences(s, p + SpaceRun(s, p), p + SpaceRun(s, p))
       ELSE SplitSentences(s, segStart, p + 1)

\* a chunk or part that fits: flush the buffer when it would overflow, else append
AddFitting(st, text, topicId, B) ==
  IF st.cur # <<>> /\ estimateTokens(st.cur) + estimateTokens(text) > B
  THEN [PushChunk(st, topicId, st.cur) EXCEPT !.cur = text]
  ELSE [st EXCEPT !.cur = IF st.cur # <<>> THEN st.cur \o <<NL, NL>> \o text ELSE text]

\* `if (currentChunk) { chunks.push(...); currentChunk = ""; }`
SaveCurrent(st, topicId) ==
  IF st.cur # <<>> THEN [PushChunk(st, topicId, st.cur) EXCEPT !.cur = <<>>] ELSE st

\* `for (const sentence of sentences)`; st.cur holds sentenceChunk
RECURSIVE PackSentences(_, _, _, _)
PackSentences(sents, st, topicId, B) ==
  IF sents = <<>> THEN st
  ELSE LET sent == Head(sents)
           next == IF estimateTokens(st.cur) + estimateTokens(sent) > B /\ st.cur # <<>>
                   THEN [PushChunk(st, topicId, st.cur) EXCEPT !.cur = sent]
                   ELSE [st EXCEPT !.cur = IF st.cur # <<>> THEN st.cur \o <<SP>> \o sent
                                            ELSE sent]
       IN  PackSentences(Tail(sents), next, topicId, B)

\* `for (const part of parts)`
RECURSIVE PackParts(_, _, _, _)
PackParts(parts, st, topicId, B) ==
  IF parts = <<>> THEN st
  ELSE LET part == Head(parts)
           next == IF estimateTokens(part) <= B
                   THEN AddFitting(st, part, topicId, B)
                   ELSE PackSentences(SplitSentences(part, 1, 1), SaveCurrent(st, topicId),
                                      topicId, B)
       IN  PackParts(Tail(parts), next, topicId, B)

\* `for (const existingChunk of topic.body_chunks)`
RECURSIVE Rechunk(_, _, _, _)
Rechunk(existing, st, topicId, B) ==
  IF existing = <<>> THEN st
  ELSE LET chunkText == Head(existing).text
           next == IF estimateTokens(chunkText) <= B
                   THEN AddFitting(st, chunkText, topicId, B)
                   ELSE PackParts(HeadingParts(chunkText), SaveCurrent(st, topicId), topicId, B)
       IN  Rechunk(Tail(existing), next, topicId, B)

\* chunkTopic(topic, maxChunkSize) without bodyText
chunkTopic(topic, maxChunkSize) ==
  IF topic.body_chunks = <<>> THEN <<>>
  ELSE FlushRest(Rechunk(topic.body_chunks, EmptyState, topic.id, maxChunkSize), topic.id)

\* limitChunks: token_count is absent (NoCount) or a number; `a || b` takes b
\* when a is absent or 0
NoCount == -1
ChunkTokens(chunk) ==
  IF chunk.token_count = NoCount \/ chunk.token_count = 0
  THEN estimateTokens(chunk.text) ELSE chunk.token_count

\* faulty variant: skips the chunk that crosses the ceiling and goes on
RECURSIVE LimitLoopSkip(_, _, _, _)
LimitLoopSkip(chunks, totalTokens, limited, maxTokens) ==
  IF chunks = <<>> THEN limited
  ELSE IF totalTokens + ChunkTokens(Head(chunks)) > maxTokens
       THEN LimitLoopSkip(Tail(chunks), totalTokens, limited, maxTokens)
       ELSE LimitLoopSkip(Tail(chunks), totalTokens + ChunkTokens(Head(chunks)),
                          Append(limited, Head(chunks)), maxTokens)

RECURSIVE LimitLoop(_, _, _, _)
LimitLoop(chunks, totalTokens, limited, maxTokens) ==
  IF chunks = <<>> THEN limited
  ELSE IF totalTokens + ChunkTokens(Head(chunks)) > maxTokens THEN limited
       ELSE LimitLoop(Tail(chunks), totalTokens + ChunkTokens(Head(chunks)),
                      Append(limited, Head(chunks)), maxTokens)

limitChunks(chunks, maxTokens) == LimitLoop(chunks, 0, <<>>, maxTokens)

(***************************************************************************)
(* Inputs of the chunker                                                   *)
(* A body text is a concatenation of at most MaxPieces pieces, the shapes   *)
(* the extractor's body text is made of: a heading line, a heading line     *)
(* with no text, paragraphs of 4 and of 12 characters each closed by a      *)
(* blank line, a sentence, and a line closed by a single newline.           *)
(***************************************************************************)
MaxPieces == 4

Pieces == {
  <<"#", "#", " ", "h", NL, NL>>,
  <<"#", NL, NL>>,
  <<"a", "a", "a", "a", NL, NL>>,
  <<"b", "b", "b", "b", "b", "b", "b", "b", "b", "b", "b", "b", NL, NL>>,
  <<"c", "c", ".", " ">>,
  <<"d", "d", NL>> }

PieceSeqs == SeqsUpTo(Pieces, MaxPieces)

\* the chunk budgets tried (maxChunkSize, in estimated tokens)
Budgets == {1, 2, 3, 5}

TopicId == "t"

(***************************************************************************)
(* search/index.ts                                                         *)
(***************************************************************************)
UpperCase == <<"A", "B", "C", "D", "E", "F", "G", "H", "I", "J", "K", "L", "M",
               "N", "O", "P", "Q", "R", "S", "T", "U", "V", "W", "X", "Y", "Z">>
LowerCase == <<"a", "b", "c", "d", "e", "f", "g", "h", "i", "j", "k", "l", "m",
               "n", "o", "p", "q", "r", "s", "t", "u", "v", "w", "x", "y", "z">>
Digits == {"0", "1", "2", "3", "4", "5", "6", "7", "8", "9"}

UpperSet  == {UpperCase[i] : i \in 1..26}
WordChars == UpperSet \cup {LowerCase[i] : i \in 1..26} \cup Digits \cup {"_"}
LowerOf   == [c \in UpperSet |-> LowerCase[CHOOSE i \in 1..26 : UpperCase[i] = c]]

\* String.prototype.toLowerCase
LowerChar(c) == IF c \in UpperSet THEN LowerOf[c] ELSE c
toLowerCase(s) == [i \in 1..Len(s) |-> LowerChar(s[i])]

\* \w of a JavaScript regular expression
IsWord(c) == c \in WordChars

\* s.startsWith(pat, p)
MatchesAt(s, pat, p) ==
  /\ p + Len(pat) - 1 <= Len(s)
  /\ \A i \in 1..Len(pat) : s[p + i - 1] = pat[i]

\* s.replace(/pat/g, rep) for a literal pattern: leftmost, non-overlapping
RECURSIVE ReplaceFrom(_, _, _, _)
ReplaceFrom(s, pat, rep, p) ==
  IF p > Len(s) THEN <<>>
  ELSE IF MatchesAt(s, pat, p) THEN rep \o ReplaceFrom(s, pat, rep, p + Len(pat))
       ELSE <<s[p]>> \o ReplaceFrom(s, pat, rep, p + 1)
ReplaceAll(s, pat, rep) == ReplaceFrom(s, pat, rep, 1)

\* s.replace(/[^\w\s-]/g, " ")
StripPunctuation(s) ==
  [i \in 1..Len(s) |-> IF IsWord(s[i]) \/ IsSpace(s[i]) \/ s[i] = "-" THEN s[i] ELSE SP]

\* faulty variant: s.split(/\s+/) without the filter, empty strings kept
RECURSIVE SplitKeepFrom(_, _, _)
SplitKeepFrom(s, segStart, p) ==
  IF p > Len(s) THEN <<SubSeq(s, segStart, Len(s))>>
  ELSE IF IsSpace(s[p])
       THEN <<SubSeq(s, segStart, p - 1)>>
            \o SplitKeepFrom(s, p + SpaceRun(s, p), p + SpaceRun(s, p))
       ELSE SplitKeepFrom(s, segStart, p + 1)
SplitWordsKeepEmpty(s, p) == SplitKeepFrom(s, p, p)

\* s.split(/\s+/).filter((token) => token.length > 0)
RECURSIVE SplitWords(_, _)
SplitWords(s, p) ==
  IF p > Len(s) THEN <<>>
  ELSE IF IsSpace(s[p]) THEN SplitWords(s, p + 1)
       ELSE LET ends == {e \in p..Len(s) : e = Len(s) \/ IsSpace(s[e + 1])}
                e    == MinOf(ends)
            IN  <<SubSeq(s, p, e)>> \o SplitWords(s, e + 1)

CPlusPlus == <<"c", "-", "p", "l", "u", "s", "-", "p", "l", "u", "s">>
CSharp    == <<"c", "-", "s", "h", "a", "r", "p">>
DotNet    == <<"d", "o", "t", "-", "n", "e", "t">>

\* faulty variant: the symbols are not rewritten before punctuation is dropped
NormalizeNoSymbols(lower) ==
  StripPunctuation(ReplaceAll(ReplaceAll(lower, <<"/">>, <<SP>>), <<".">>, <<SP>>))

Normalize(lower) ==
  StripPunctuation(
    ReplaceAll(
      ReplaceAll(
        ReplaceAll(
          ReplaceAll(
            ReplaceAll(lower, <<"c", "+", "+">>, CPlusPlus),
            <<"c", "#">>, CSharp),
          <<".", "n", "e", "t">>, DotNet),
        <<"/">>, <<SP>>),
      <<".">>, <<SP>>))

tokenize(text) == SplitWords(Normalize(toLowerCase(text)), 1)

\* tokens.filter((t) => t === token).length
countToken(tokens, token) == Cardinality({i \in 1..Len(tokens) : tokens[i] = token})

RECURSIVE SumCounts(_, _)
SumCounts(queryTokens, tokens) ==
  IF queryTokens = <<>> THEN 0
  ELSE countToken(tokens, Head(queryTokens)) + SumCounts(Tail(queryTokens), tokens)

TitleWeight   == 3
SummaryWeight == 2
BodyWeight    == 1

\* faulty variant: every field weighs the same
calculateScoreFlat(queryTokens, entry) ==
    SumCounts(queryTokens, entry.titleTokens)
  + SumCounts(queryTokens, entry.summaryTokens)
  + SumCounts(queryTokens, entry.bodyTokens)

calculateScore(queryTokens, entry) ==
    SumCounts(queryTokens, entry.titleTokens) * TitleWeight
  + SumCounts(queryTokens, entry.summaryTokens) * SummaryWeight
  + SumCounts(queryTokens, entry.bodyTokens) * BodyWeight

\* topic.body_chunks.map((chunk) => chunk.text).join(" ")
RECURSIVE JoinTexts(_)
JoinTexts(chunks) ==
  IF chunks = <<>> THEN <<>>
  ELSE IF Len(chunks) = 1 THEN chunks[1].text
       ELSE chunks[1].text \o <<SP>> \o JoinTexts(Tail(chunks))

\* faulty variant: the key is the id alone
indexKeyIdOnly(topic) == topic.id

\* `${topic.version}:${topic.id}`
indexKey(topic) == topic.version \o <<":">> \o topic.id

\* the entry addTopic stores; entry.topic is the caller's object itself
NewEntry(topic) ==
  [key           |-> indexKey(topic),
   topic         |-> topic,
   titleTokens   |-> tokenize(topic.title),
   summaryTokens |-> tokenize(topic.summary),
   bodyTokens    |-> tokenize(JoinTexts(topic.body_chunks))]

\* faulty variant: a present key keeps its tokens and gains the new ones
MapSetMerge(map, entry) ==
  IF \E i \in 1..Len(map) : map[i].key = entry.key
  THEN [i \in 1..Len(map) |->
          IF map[i].key = entry.key
          THEN [entry EXCEPT !.titleTokens = map[i].titleTokens \o entry.titleTokens,
                             !.summaryTokens = map[i].summaryTokens \o entry.summaryTokens,
                             !.bodyTokens = map[i].bodyTokens \o entry.bodyTokens]
          ELSE map[i]]
  ELSE Append(map, entry)

\* Map.prototype.set: a present key keeps its place in iteration order
MapSet(map, entry) ==
  IF \E i \in 1..Len(map) : map[i].key = entry.key
  THEN [i \in 1..Len(map) |-> IF map[i].key = entry.key THEN entry ELSE map[i]]
  ELSE Append(map, entry)

\* optional arguments: <<>> is undefined, <<v>> is the value v
Undefined == <<>>
Some(v) == <<v>>
\* `version && ...`: the argument is given and is not the empty string
Truthy(arg) == arg # Undefined /\ arg[1] # <<>>

PassesFilters(entry, version, section) ==
  /\ ~(Truthy(version) /\ entry.topic.version # version[1])
  /\ ~(Truthy(section) /\ entry.topic.section # section[1])

ResultOf(entry, score) ==
  [topic_id |-> entry.topic.id, title |-> entry.topic.title,
   section |-> entry.topic.section, version |-> entry.topic.version,
   url |-> entry.topic.url, summary |-> entry.topic.summary,
   source |-> entry.topic.source, score |-> score]

\* `for (const entry of this.index.values())`
RECURSIVE Collect(_, _, _, _)
Collect(map, queryTokens, version, section) ==
  IF map = <<>> THEN <<>>
  ELSE LET entry == Head(map)
           score == calculateScore(queryTokens, entry)
           rest  == Collect(Tail(map), queryTokens, version, section)
       IN  IF PassesFilters(entry, version, section) /\ score > 0
           THEN <<ResultOf(entry, score)>> \o rest
           ELSE rest

\* faulty variant: ascending order
BeforeAscending(a, b) == a.score <= b.score

\* results.sort((a, b) => b.score - a.score): Array.prototype.sort is stable
Before(a, b) == a.score >= b.score
RECURSIVE InsertSorted(_, _)
InsertSorted(sorted, r) ==
  IF sorted = <<>> THEN <<r>>
  ELSE IF Before(Head(sorted), r) THEN <<Head(sorted)>> \o InsertSorted(Tail(sorted), r)
       ELSE <<r>> \o sorted
RECURSIVE SortByScore(_)
SortByScore(rs) ==
  IF rs = <<>> THEN <<>>
  ELSE InsertSorted(SortByScore(SubSeq(rs, 1, Len(rs) - 1)), rs[Len(rs)])

\* slice(0, n)
Slice(rs, n) == SubSeq(rs, 1, IF n < Len(rs) THEN n ELSE Len(rs))

\* faulty variant: `if (limit) return results.slice(0, limit)`, no clamp
ApplyLimitUnclamped(results, limit) ==
  IF limit # Undefined /\ limit[1] # 0
  THEN IF limit[1] > 0 THEN Slice(results, limit[1])
       ELSE SubSeq(results, 1, IF Len(results) + limit[1] > 0 THEN Len(results) + limit[1] ELSE 0)
  ELSE results

ApplyLimit(results, limit) ==
  IF limit # Undefined
  THEN LET clampedLimit == IF limit[1] > 0 THEN limit[1] ELSE 0
       IN  IF clampedLimit = 0 THEN <<>> ELSE Slice(results, clampedLimit)
  ELSE results

search(map, query, version, section, limit) ==
  IF trim(query) = <<>> THEN <<>>
  ELSE LET queryTokens == tokenize(trim(query))
       IN  IF Len(queryTokens) = 0 THEN <<>>
           ELSE ApplyLimit(SortByScore(Collect(map, queryTokens, version, section)), limit)

(***************************************************************************)
(* Inputs of the search index                                              *)
(***************************************************************************)
MaxTopics == 2
MaxMutations == 1

Ids      == {<<"x">>, <<"y">>}
Versions == {<<"v", "1">>, <<"v", "2">>}
SectionNames == {<<"s", "1">>, <<"s", "2">>}

\* section, title, summary and chunk texts of the topics added
Contents == {
  [section |-> <<"s", "1">>, title |-> <<"a">>, summary |-> <<>>,
   body_chunks |-> <<[text |-> <<"b">>]>>],
  [section |-> <<"s", "2">>, title |-> <<"b">>, summary |-> <<>>,
   body_chunks |-> <<[text |-> <<"a">>]>>],
  [section |-> <<"s", "1">>, title |-> <<"A", " ", "b">>, summary |-> <<"a", ".", "b">>,
   body_chunks |-> <<[text |-> <<"a">>], [text |-> <<"a", " ", "B">>]>>],
  [section |-> <<"s", "2">>, title |-> <<"C", "+", "+">>, summary |-> <<"c">>,
   body_chunks |-> <<>>] }

Topics ==
  {[id |-> i, version |-> v, section |-> c.section, title |-> c.title, summary |-> c.summary,
    body_chunks |-> c.body_chunks, url |-> <<"/">> \o i, source |-> "online"] :
     i \in Ids, v \in Versions, c \in Contents}

\* NewEntry for every topic of the input set, computed once
EntryTable == [topic \in Topics |-> NewEntry(topic)]

Queries == {<<>>, <<SP>>, <<"!">>, <<"a">>, <<"B", " ", "a", " ", "a">>}
VersionArgs == {Undefined, Some(<<>>), Some(<<"v", "1">>)}
SectionArgs == {Undefined, Some(<<>>), Some(<<"s", "1">>)}
LimitArgs   == {Undefined, Some(-1), Some(0), Some(1)}

(***************************************************************************)
(* State                                                                   *)
(***************************************************************************)
VARIABLES
  index,      \* SearchIndex.index: the Map's entries in insertion order
  addedAs,    \* history: for each entry, the value its topic had when added
  mutations,  \* number of writes the caller made to records it had added
  stale,      \* history: the (version, id) pairs the last tracked clear() removed
  replaced,   \* history: the (version, id) pairs a tracked addTopic wrote over
  pc,         \* the caller: "ready" to call, or holding what search "returned"
  call,       \* the arguments of the search call that returned
  result,     \* what that search call returned
  cIn,        \* chunker: the body text, or the texts of the existing chunks
  cBudget,    \* chunker: maxChunkSize
  cPc,        \* chunker: "idle", "input", "body" (chunkBodyText ran), "topic"
  cOut,       \* chunker: the chunks returned
  lIn,        \* limitChunks: the chunks passed in
  lMax,       \* limitChunks: maxTokens
  lPc,        \* limitChunks: "idle", "input", "done"
  lOut,       \* limitChunks: the chunks returned
  pIn,        \* parseHtml: the document and the options passed in
  pPc,        \* parseHtml: "idle", "input", "done"
  pOut,       \* parseHtml: the topic returned, or the error thrown
  hProvider,  \* providers: the provider createProvider returned
  hPc,        \* HybridProvider.fetchTopic: "idle", "config", "ready", "local", "online"
  hCall,      \* fetchTopic: the arguments of the call in progress or last made
  hLog,       \* history: the provider calls of that fetchTopic and how they ended
  hOut,       \* fetchTopic: what the last call returned or threw
  gCache,     \* CacheManager: initialized, and the files of the cache directory
  gPc,        \* getTopic: "idle", "ready", "cacheGet", "fetch", "cacheSet"
  gCall,      \* getTopic: the arguments and locals of the call in progress or last made
  gTopic,     \* getTopic: the local `topic`
  gLog,       \* history: what the call did (cache hit or miss, provider calls, cache write)
  gHist,      \* history: per cache file, the topic the provider returned that was last written
  gOut,       \* getTopic: what the last call returned
  rRequests,  \* RateLimiter state.requests, as ages (now - timestamp)
  rGrants,    \* history, the age of every request granted
  rPc,        \* where each caller of waitForSlot is
  rAllowed,   \* what each caller's last check() resolved to
  rTimer,     \* time left on each caller's setTimeout
  rChecks     \* number of plain check() calls made

vars == <<index, addedAs, mutations, stale, replaced, pc, call, result,
          cIn, cBudget, cPc, cOut, lIn, lMax, lPc, lOut, pIn, pPc, pOut,
          hProvider, hPc, hCall, hLog, hOut,
          gCache, gPc, gCall, gTopic, gLog, gHist, gOut,
          rRequests, rGrants, rPc, rAllowed, rTimer, rChecks>>
indexVars   == <<index, addedAs, mutations, stale, replaced, pc, call, result>>
chunkerVars == <<cIn, cBudget, cPc, cOut>>
limitVars   == <<lIn, lMax, lPc, lOut>>
parserVars  == <<pIn, pPc, pOut>>
hybridVars  == <<hProvider, hPc, hCall, hLog, hOut>>
getTopicVars == <<gCache, gPc, gCall, gTopic, gLog, gHist, gOut>>
rateVars    == <<rRequests, rGrants, rPc, rAllowed, rTimer, rChecks>>

NoCall == [query |-> <<>>, version |-> Undefined, section |-> Undefined, limit |-> Undefined]

IndexIdle ==
  /\ index = <<>> /\ addedAs = <<>> /\ mutations = 0 /\ stale = {} /\ replaced = {}
  /\ pc = "ready" /\ call = NoCall /\ result = <<>>
ChunkerIdle == cIn = <<>> /\ cBudget = 0 /\ cPc = "idle" /\ cOut = <<>>
LimitIdle   == lIn = <<>> /\ lMax = 0 /\ lPc = "idle" /\ lOut = <<>>
ParserIdle  == pIn = <<>> /\ pPc = "idle" /\ pOut = <<>>
HybridIdle  == hProvider = <<>> /\ hPc = "idle" /\ hCall = <<>> /\ hLog = <<>> /\ hOut = <<>>
GetTopicIdle == gCache = <<>> /\ gPc = "idle" /\ gCall = <<>> /\ gTopic = <<>> /\ gLog = <<>> /\ gHist = <<>> /\ gOut = <<>>
RateIdle    == rRequests = <<>> /\ rGrants = <<>> /\ rPc = <<>> /\ rAllowed = <<>> /\ rTimer = <<>> /\ rChecks = 0

(***************************************************************************)
(* The search index as a state machine.  The index is synchronous and       *)
(* single-threaded: the caller makes one call at a time, and after a search *)
(* it holds the returned list until it goes on (Return).                    *)
(***************************************************************************)
Init == IndexIdle /\ ChunkerIdle /\ LimitIdle /\ ParserIdle /\ HybridIdle /\ GetTopicIdle /\ RateIdle

\* history: the record is noted under its (version, id), the latest one kept
HistSet(hist, topic) ==
  IF \E i \in 1..Len(hist) : hist[i].id = topic.id /\ hist[i].version = topic.version
  THEN [i \in 1..Len(hist) |->
          IF hist[i].id = topic.id /\ hist[i].version = topic.version
          THEN topic ELSE hist[i]]
  ELSE Append(hist, topic)

\* addTopic(topic) with a record the caller has just built; when tracked, a
\* pair whose record is written over by a different one is noted in the history
AddTopicFrom(table, tracked) ==
  \E topic \in DOMAIN table :
    /\ pc = "ready"
    /\ \/ Len(index) < MaxTopics
       \/ \E i \in 1..Len(index) : index[i].key = indexKey(topic)
    /\ index' = MapSet(index, table[topic])
    /\ addedAs' = HistSet(addedAs, topic)
    /\ replaced' = IF tracked /\ \E i \in 1..Len(addedAs) :
                                   /\ addedAs[i].id = topic.id
                                   /\ addedAs[i].version = topic.version
                                   /\ addedAs[i] # topic
                   THEN replaced \cup {<<topic.version, topic.id>>}
                   ELSE replaced
    /\ UNCHANGED <<mutations, stale, pc, call, result, chunkerVars, limitVars, parserVars, hybridVars, getTopicVars, rateVars>>

AddTopicWith(tracked) == AddTopicFrom(EntryTable, tracked)

AddTopic == AddTopicWith(FALSE)

\* faulty variant: the oldest entry survives
MapClearButFirst(map) == IF map = <<>> THEN <<>> ELSE <<map[1]>>
\* this.index.clear()
MapClear(map) == <<>>

\* clear(); when tracked, the pairs it removes are noted in the history
ClearWith(tracked) ==
  /\ pc = "ready"
  /\ index' = MapClear(index)
  /\ addedAs' = <<>>
  /\ stale' = IF tracked
              THEN {<<addedAs[i].version, addedAs[i].id>> : i \in 1..Len(addedAs)}
              ELSE stale
  /\ replaced' = {}
  /\ UNCHANGED <<mutations, pc, call, result, chunkerVars, limitVars, parserVars, hybridVars, getTopicVars, rateVars>>

Clear == ClearWith(FALSE)

\* search(query, version, section, limit) with arguments from the given sets
SearchWith(queries, versionArgs, sectionArgs, limitArgs) ==
  \E query \in queries, version \in versionArgs, section \in sectionArgs, limit \in limitArgs :
    /\ pc = "ready"
    /\ call' = [query |-> query, version |-> version, section |-> section, limit |-> limit]
    /\ result' = search(index, query, version, section, limit)
    /\ pc' = "returned"
    /\ UNCHANGED <<index, addedAs, mutations, stale, replaced, chunkerVars, limitVars, parserVars, hybridVars, getTopicVars, rateVars>>

Search == SearchWith(Queries, VersionArgs, SectionArgs, LimitArgs)

\* the caller is done with the list search returned
Return ==
  /\ pc = "returned"
  /\ pc' = "ready" /\ call' = NoCall /\ result' = <<>>
  /\ UNCHANGED <<index, addedAs, mutations, stale, replaced, chunkerVars, limitVars, parserVars, hybridVars, getTopicVars, rateVars>>

Next == AddTopic \/ Clear \/ Search \/ Return

Spec == Init /\ [][Next]_vars

(***************************************************************************)
(* The same index with a caller that keeps writing to the records it has    *)
(* added: entry.topic is a reference to the caller's object.                *)
(***************************************************************************)
\* topic.<field> = <value> on a record that is in the index
Mutate ==
  \E i \in 1..Len(index), t \in Topics :
    \E changed \in {[index[i].topic EXCEPT !.title = t.title],
                    [index[i].topic EXCEPT !.summary = t.summary],
                    [index[i].topic EXCEPT !.section = t.section],
                    [index[i].topic EXCEPT !.version = t.version],
                    [index[i].topic EXCEPT !.id = t.id]} :
      /\ pc = "ready"
      /\ mutations < MaxMutations
      /\ changed # index[i].topic
      /\ index' = [index EXCEPT ![i].topic = changed]
      /\ mutations' = mutations + 1
      /\ UNCHANGED <<addedAs, stale, replaced, pc, call, result, chunkerVars, limitVars, parserVars, hybridVars, getTopicVars, rateVars>>

AliasQueries     == {<<"a">>}
AliasVersionArgs == {Undefined, Some(<<"v", "1">>)}
AliasSectionArgs == {Undefined, Some(<<"s", "1">>)}
AliasLimitArgs   == {Undefined, Some(1)}

SearchAlias == SearchWith(AliasQueries, AliasVersionArgs, AliasSectionArgs, AliasLimitArgs)

NextAlias == AddTopic \/ Clear \/ Mutate \/ SearchAlias \/ Return

SpecAlias == Init /\ [][NextAlias]_vars

(***************************************************************************)
(* The same index with the history of what each clear() removed and of     *)
(* what each addTopic wrote over                                            *)
(***************************************************************************)
ClearTracked == ClearWith(TRUE)

\* the records added here: per (version, id), one with the term "a" and one without
ClearTopics == {t \in Topics : t.title \in {<<"a">>, <<"C", "+", "+">>}}

ClearEntryTable == [topic \in ClearTopics |-> EntryTable[topic]]

AddTopicTracked == AddTopicFrom(ClearEntryTable, TRUE)

ClearQueries     == {<<"a">>, <<"B", " ", "a", " ", "a">>}
ClearVersionArgs == {Undefined, Some(<<"v", "1">>)}
ClearSectionArgs == {Undefined}
ClearLimitArgs   == {Undefined, Some(1)}

SearchClear == SearchWith(ClearQueries, ClearVersionArgs, ClearSectionArgs, ClearLimitArgs)

NextClear == SearchClear \/ Return \/ ClearTracked \/ AddTopicTracked

SpecClear == Init /\ [][NextClear]_vars

(***************************************************************************)
(* The index with topics and queries that hold the symbols C++, C#, .NET    *)
(***************************************************************************)
\* the symbols as they are written, in several letter cases
SymbolForms == {<<"C", "+", "+">>, <<"c", "+", "+">>, <<"C", "#">>, <<"c", "#">>,
                <<".", "N", "E", "T">>, <<".", "N", "e", "t">>, <<".", "n", "e", "t">>}

\* a text that holds the symbol as a word: alone, after a word, before a comma
SymbolTexts == UNION {{f, <<"x", SP>> \o f, f \o <<",", SP, "y">>} : f \in SymbolForms}

\* the symbol in the title, in the summary or in a chunk
SymbolContents ==
     {[title |-> t, summary |-> <<>>, body_chunks |-> <<>>] : t \in SymbolTexts}
  \cup {[title |-> <<"t">>, summary |-> t, body_chunks |-> <<>>] : t \in SymbolTexts}
  \cup {[title |-> <<"t">>, summary |-> <<>>, body_chunks |-> <<[text |-> <<"z">>], [text |-> t]>>] :
          t \in SymbolTexts}

SymbolTopics ==
  {[id |-> i, version |-> <<"v", "1">>, section |-> <<"s", "1">>, title |-> c.title,
    summary |-> c.summary, body_chunks |-> c.body_chunks, url |-> <<"/">> \o i,
    source |-> "online"] : i \in Ids, c \in SymbolContents}

SymbolEntryTable == [topic \in SymbolTopics |-> NewEntry(topic)]

\* the normalized names in two letter cases, and the symbols as written
SymbolQueries ==
  SymbolForms \cup {CPlusPlus, CSharp, DotNet}
              \cup {<<"C", "-", "P", "L", "U", "S", "-", "P", "L", "U", "S">>,
                    <<"C", "-", "S", "h", "a", "r", "p">>, <<"D", "o", "t", "-", "N", "E", "T">>}

AddSymbolTopic == AddTopicFrom(SymbolEntryTable, FALSE)

SearchSymbol == SearchWith(SymbolQueries, {Undefined}, {Undefined}, {Undefined})

NextSymbol == AddSymbolTopic \/ Clear \/ SearchSymbol \/ Return

SpecSymbol == Init /\ [][NextSymbol]_vars

(***************************************************************************)
(* The chunker: the inputs are drawn at Init, the actions apply it          *)
(***************************************************************************)
\* the piece sequence as one text, or cut in two existing chunks
ExistingTexts(ps, cut) ==
  IF ps = <<>> THEN <<>>
  ELSE IF cut = 0 \/ cut >= Len(ps) THEN <<Concat(ps)>>
       ELSE <<Concat(SubSeq(ps, 1, cut)), Concat(SubSeq(ps, cut + 1, Len(ps)))>>

\* a text of whitespace alone
Blank == <<SP, NL>>

\* the texts made of pieces, and the same behind a chunk of whitespace alone
PieceInputs == {ExistingTexts(ps, cut) : ps \in PieceSeqs, cut \in 0..(MaxPieces - 1)}

ChunkerInputs == PieceInputs \cup {<<Blank>> \o e : e \in {x \in PieceInputs : Len(x) <= 1}}

InitChunk ==
  /\ IndexIdle /\ LimitIdle /\ ParserIdle /\ HybridIdle /\ GetTopicIdle /\ RateIdle
  /\ cIn \in ChunkerInputs
  /\ cBudget \in Budgets
  /\ cPc = "input"
  /\ cOut = <<>>

BodyText == IF cIn = <<>> THEN <<>> ELSE cIn[1]

\* chunkBodyText(topicId, bodyText, maxChunkSize) on a single text
ChunkBodyText ==
  /\ cPc = "input"
  /\ Len(cIn) <= 1
  /\ cOut' = chunkBodyText(TopicId, BodyText, cBudget)
  /\ cPc' = "body"
  /\ UNCHANGED <<cIn, cBudget, index, addedAs, mutations, stale, replaced, pc, call, result, limitVars, parserVars, hybridVars, getTopicVars, rateVars>>

\* chunkTopic(topic, maxChunkSize) on a topic whose body_chunks hold the texts
ChunkTopic ==
  /\ cPc = "input"
  /\ cOut' = chunkTopic([id |-> TopicId,
                         body_chunks |-> [i \in 1..Len(cIn) |-> [text |-> cIn[i]]]], cBudget)
  /\ cPc' = "topic"
  /\ UNCHANGED <<cIn, cBudget, index, addedAs, mutations, stale, replaced, pc, call, result, limitVars, parserVars, hybridVars, getTopicVars, rateVars>>

NextChunk == ChunkBodyText \/ ChunkTopic

SpecChunk == InitChunk /\ [][NextChunk]_vars

(***************************************************************************)
(* limitChunks: the inputs are drawn at Init, the action applies it         *)
(***************************************************************************)
MaxChunks == 3

\* a chunk's text and token_count; texts of 1 and of 2 estimated tokens
LimitTexts  == {<<"a", "a", "a", "a">>, <<"a", "a", "a", "a", "a">>}
LimitCounts == {NoCount, 0, 1, 3}
LimitBudgets == {0, 1, 2, 3, 5}

LimitInputs ==
  {[i \in 1..Len(q) |-> [topic_id |-> TopicId, chunk_index |-> i - 1,
                         text |-> q[i][1], token_count |-> q[i][2]]] :
     q \in SeqsUpTo(LimitTexts \X LimitCounts, MaxChunks)}

InitLimit ==
  /\ IndexIdle /\ ChunkerIdle /\ ParserIdle /\ HybridIdle /\ GetTopicIdle /\ RateIdle
  /\ lIn \in LimitInputs
  /\ lMax \in LimitBudgets
  /\ lPc = "input"
  /\ lOut = <<>>

\* limitChunks(chunks, maxTokens)
LimitChunks ==
  /\ lPc = "input"
  /\ lOut' = limitChunks(lIn, lMax)
  /\ lPc' = "done"
  /\ UNCHANGED <<lIn, lMax, index, addedAs, mutations, stale, replaced, pc, call, result, chunkerVars, parserVars, hybridVars, getTopicVars, rateVars>>

NextLimit == LimitChunks

SpecLimit == InitLimit /\ [][NextLimit]_vars

(***************************************************************************)
(* Claims about the chunker                                                *)
(***************************************************************************)
\* a text with no blank line inside it: one paragraph, an indivisible unit
SingleUnit(text) == Len(SplitBlank(text, 1, 1)) = 1

\* C3: every chunk chunkBodyText returns for a budget B >= 1 has
\* token_count <= B, except a chunk that is one indivisible unit (a single
\* paragraph, no blank line inside) whose own estimate already exceeds B.
C3_ChunkBudget ==
  cPc = "body" =>
    \A i \in 1..Len(cOut) :
      \/ cOut[i].token_count <= cBudget
      \/ SingleUnit(cOut[i].text) /\ estimateTokens(cOut[i].text) > cBudget

\* all whitespace removed
Squeeze(s) == SelectSeq(s, LAMBDA c : ~IsSpace(c))

\* the chunk texts in order, joined by blank lines
RECURSIVE JoinBlank(_)
JoinBlank(chunks) ==
  IF chunks = <<>> THEN <<>>
  ELSE IF Len(chunks) = 1 THEN chunks[1].text
       ELSE chunks[1].text \o <<NL, NL>> \o JoinBlank(Tail(chunks))

\* C4: the texts of the chunks chunkBodyText returns, concatenated in order
\* with blank-line separators, reproduce the body text up to whitespace:
\* nothing is missing, duplicated or reordered.  (Whitespace is ignored
\* everywhere here, which is more lenient than "at chunk boundaries".)
C4_Contiguity ==
  cPc = "body" => Squeeze(JoinBlank(cOut)) = Squeeze(BodyText)

\* C5: the chunk_index values returned by chunkBodyText, and by chunkTopic
\* when re-chunking, are exactly 0, 1, ..., n-1 in output order.
C5_DenseIndices ==
  cPc \in {"body", "topic"} =>
    \A i \in 1..Len(cOut) : cOut[i].chunk_index = i - 1

\* re-chunking returned at least three chunks
W_C5_Rechunked == cPc = "topic" /\ Len(cOut) >= 3
\* chunkBodyText returned at least three chunks
W_C5_Split == cPc = "body" /\ Len(cOut) >= 3

(***************************************************************************)
(* Claims about limitChunks                                                *)
(***************************************************************************)
\* sum of the first k counts
RECURSIVE Cumulative(_, _)
Cumulative(counts, k) == IF k = 0 THEN 0 ELSE Cumulative(counts, k - 1) + counts[k]

\* the longest prefix whose cumulative count does not exceed maxTokens
LongestPrefix(chunks, maxTokens, Count(_)) ==
  LET counts == [i \in 1..Len(chunks) |-> Count(chunks[i])]
  IN  SubSeq(chunks, 1, MaxOf({k \in 0..Len(chunks) : Cumulative(counts, k) <= maxTokens}))

\* the chunk's token_count, the estimate of its text when it has none
CountOrEstimate(chunk) ==
  IF chunk.token_count = NoCount THEN (Len(chunk.text) + 3) \div 4 ELSE chunk.token_count

\* the chunk's token_count, the estimate of its text when it has none or it is 0
PositiveCountOrEstimate(chunk) ==
  IF chunk.token_count = NoCount \/ chunk.token_count = 0
  THEN (Len(chunk.text) + 3) \div 4 ELSE chunk.token_count

\* C6 as stated: limitChunks returns, unmodified, the longest prefix whose
\* cumulative count (token_count, or ceil(length / 4) when token_count is
\* missing) does not exceed maxTokens.
C6_LongestPrefix_Original ==
  lPc = "done" => lOut = LongestPrefix(lIn, lMax, CountOrEstimate)

\* C6 as amended: a token_count of 0 counts as missing too.
C6_LongestPrefix ==
  lPc = "done" => lOut = LongestPrefix(lIn, lMax, PositiveCountOrEstimate)

\* a chunk that would fit follows the chunk that crossed the ceiling, and the
\* chunks hold a missing and a zero token_count
W_C6_StopsAtFirst ==
  /\ lPc = "done"
  /\ Len(lOut) + 2 <= Len(lIn)
  /\ Len(lOut) >= 1
  /\ Cumulative([i \in 1..Len(lOut) |-> PositiveCountOrEstimate(lOut[i])], Len(lOut))
       + PositiveCountOrEstimate(lIn[Len(lOut) + 2]) <= lMax
  /\ \E i \in 1..Len(lIn) : lIn[i].token_count = NoCount
  /\ \E i \in 1..Len(lIn) : lIn[i].token_count = 0

(***************************************************************************)
(* Claims about the search index                                           *)
(***************************************************************************)
\* the tokens of the query of the call that returned
CallTokens == tokenize(trim(call.query))

\* occurrences of a token in a token list
Occurrences(tokens, t) == Cardinality({k \in 1..Len(tokens) : tokens[k] = t})

\* sum over the query tokens of 3 x title + 2 x summary + 1 x body occurrences
RECURSIVE WeightedSum(_, _)
WeightedSum(queryTokens, entry) ==
  IF queryTokens = <<>> THEN 0
  ELSE   3 * Occurrences(entry.titleTokens, Head(queryTokens))
       + 2 * Occurrences(entry.summaryTokens, Head(queryTokens))
       + Occurrences(entry.bodyTokens, Head(queryTokens))
       + WeightedSum(Tail(queryTokens), entry)

\* result j reports entry i
Reports(j, i) ==
  /\ result[j].topic_id = index[i].topic.id
  /\ result[j].version = index[i].topic.version

\* the entries that pass the filters of the call and score above 0
Matching ==
  {i \in 1..Len(index) :
     /\ PassesFilters(index[i], call.version, call.section)
     /\ WeightedSum(CallTokens, index[i]) > 0}

\* every matching entry is reported, each once
AllMatchesReturned ==
  /\ Len(result) = Cardinality(Matching)
  /\ \A i \in Matching : \E j \in 1..Len(result) : Reports(j, i)

\* C1, the searches: a search filtered by version v returns the records of
\* version v only, and an unfiltered search whose query matches two records
\* of the same id and different versions returns both.
C1_Searches ==
  pc = "returned" =>
    /\ Truthy(call.version) =>
         /\ \A j \in 1..Len(result) : result[j].version = call.version[1]
         /\ call.section = Undefined /\ call.limit = Undefined =>
              \A i \in 1..Len(index) :
                (index[i].topic.version = call.version[1]
                   /\ WeightedSum(CallTokens, index[i]) > 0)
                => \E j \in 1..Len(result) : Reports(j, i)
    /\ call.version = Undefined /\ call.section = Undefined /\ call.limit = Undefined =>
         \A i1, i2 \in 1..Len(index) :
           (/\ index[i1].topic.id = index[i2].topic.id
            /\ index[i1].topic.version # index[i2].topic.version
            /\ WeightedSum(CallTokens, index[i1]) > 0
            /\ WeightedSum(CallTokens, index[i2]) > 0)
           => \E j1, j2 \in 1..Len(result) : j1 # j2 /\ Reports(j1, i1) /\ Reports(j2, i2)

\* C1, the writes: a step that adds a record leaves every stored entry as it
\* was, except an entry of the same id AND the same version.
C1_AddStep ==
  (index' # index /\ index' # <<>>) =>
    \A i \in 1..Len(index) :
      \/ \E j \in 1..Len(index') : index'[j] = index[i]
      \/ \E j \in 1..Len(index') :
           /\ index'[j].topic.id = index[i].topic.id
           /\ index'[j].topic.version = index[i].topic.version
           /\ \A k \in 1..Len(index) : index[k] # index'[j]

\* C1: for any sequence of addTopic calls, two records with the same id but
\* different versions are independent entries: adding one never replaces or
\* removes the other, a search filtered by version v returns only the record
\* whose version is v, and an unfiltered search matching both returns both.
C1_VersionIsolation == [][C1_AddStep]_vars /\ []C1_Searches

\* both versions of one id are stored, and a search filtered by one version
\* returned exactly one of them
W_C1_TwoVersions ==
  /\ pc = "returned"
  /\ Len(index) = 2
  /\ index[1].topic.id = index[2].topic.id
  /\ index[1].topic.version # index[2].topic.version
  /\ call.version = Some(<<"v", "1">>)
  /\ Cardinality(Matching) = 1
  /\ WeightedSum(CallTokens, index[1]) > 0
  /\ WeightedSum(CallTokens, index[2]) > 0
  /\ Len(result) = 1

\* the index as it would be had addTopic copied each record
CopiedIndex == [i \in 1..Len(index) |-> [index[i] EXCEPT !.topic = addedAs[i]]]

\* C2: later writes to a record the caller added do not show in any search:
\* the results are those of an index holding a copy made when it was added.
C2_NoAliasing ==
  pc = "returned" =>
    result = search(CopiedIndex, call.query, call.version, call.section, call.limit)

\* C7: with limit undefined search returns every entry that passes the
\* filters and scores above 0; with limit <= 0 it returns the empty list; with
\* limit > 0 it returns the first min(limit, matches) results of the sorted
\* unlimited list.
C7_Limit ==
  pc = "returned" =>
    LET unlimited == search(index, call.query, call.version, call.section, Undefined)
    IN  /\ call.limit = Undefined => AllMatchesReturned
        /\ (call.limit # Undefined /\ call.limit[1] <= 0) => result = <<>>
        /\ (call.limit # Undefined /\ call.limit[1] > 0) =>
             /\ Len(result) = (IF call.limit[1] < Len(unlimited)
                               THEN call.limit[1] ELSE Len(unlimited))
             /\ Len(unlimited) = Cardinality(Matching)
             /\ \A j \in 1..Len(result) : result[j] = unlimited[j]

\* a negative limit on a query that matches entries
W_C7_NegativeLimit ==
  /\ pc = "returned"
  /\ call.limit = Some(-1)
  /\ Cardinality(Matching) = 2
  /\ result = <<>>

\* a positive limit smaller than the number of matches
W_C7_Truncated ==
  /\ pc = "returned"
  /\ call.limit = Some(1)
  /\ Cardinality(Matching) = 2
  /\ Len(result) = 1

\* C8: the score reported for an entry is the sum over all query tokens of
\* 3 x title + 2 x summary + 1 x body occurrences, and an entry is in the
\* result exactly when it passes the filters and that score is above 0.
C8_Score ==
  pc = "returned" =>
    /\ \A j \in 1..Len(result) :
         \E i \in Matching :
           Reports(j, i) /\ result[j].score = WeightedSum(CallTokens, index[i])
    /\ call.limit = Undefined => AllMatchesReturned

\* a query with a repeated token scored an entry that has it in the title,
\* the summary and the body: 2 x (3 x 1 + 2 x 1 + 1 x 2) + (3 + 2 + 1) = 20
W_C8_AllFields ==
  /\ pc = "returned"
  /\ Len(CallTokens) = 3
  /\ \E j \in 1..Len(result) : result[j].score = 20

\* position in the result of the report of entry i, 0 when it is not there
PositionOf(i) ==
  IF \E j \in 1..Len(result) : Reports(j, i)
  THEN CHOOSE j \in 1..Len(result) : Reports(j, i) ELSE 0

\* entry i1 has the token in its title only, entry i2 as often in its body only
TitleVersusBody(i1, i2, t) ==
  /\ Occurrences(index[i1].titleTokens, t) >= 1
  /\ Occurrences(index[i1].summaryTokens, t) = 0
  /\ Occurrences(index[i1].bodyTokens, t) = 0
  /\ Occurrences(index[i2].titleTokens, t) = 0
  /\ Occurrences(index[i2].summaryTokens, t) = 0
  /\ Occurrences(index[i2].bodyTokens, t) = Occurrences(index[i1].titleTokens, t)

\* C9: every result list is ordered by non-increasing score; a topic with the
\* query term in its title comes before an otherwise identical topic with the
\* term in its body only.
C9_Ordering ==
  pc = "returned" =>
    /\ \A j \in 1..(Len(result) - 1) : result[j].score >= result[j + 1].score
    /\ Len(CallTokens) = 1 =>
         \A i1, i2 \in 1..Len(index) :
           (TitleVersusBody(i1, i2, CallTokens[1]) /\ PositionOf(i1) > 0 /\ PositionOf(i2) > 0)
           => PositionOf(i1) < PositionOf(i2)

\* the body-only topic was added first and the title topic is reported first
W_C9_TitleFirst ==
  /\ pc = "returned"
  /\ Len(index) = 2
  /\ Len(CallTokens) = 1
  /\ TitleVersusBody(2, 1, CallTokens[1])
  /\ Len(result) = 2
  /\ PositionOf(2) = 1

\* the query has no word character and no hyphen: empty, whitespace-only, or
\* punctuation that tokenizes to nothing
NoTokenQuery == \A k \in 1..Len(call.query) : ~IsWord(call.query[k]) /\ call.query[k] # "-"

\* C10: a query that is empty, whitespace-only or yields no tokens returns
\* the empty list, whatever the index holds and whatever filters and limit.
C10_EmptyQuery ==
  (pc = "returned" /\ NoTokenQuery) => result = <<>>

\* a punctuation-only query on an index that holds topics
W_C10_Punctuation ==
  /\ pc = "returned"
  /\ call.query = <<"!">>
  /\ Len(index) = 2
  /\ call.limit = Undefined
  /\ result = <<>>

(***************************************************************************)
(* Further claims about the search index                                   *)
(***************************************************************************)
\* the stored entries whose version and section equal the arguments given
MatchesGiven(i) ==
  /\ call.version # Undefined => index[i].topic.version = call.version[1]
  /\ call.section # Undefined => index[i].topic.section = call.section[1]

\* C11: whenever a version argument is given every returned result has
\* exactly that version; whenever a section argument is given every returned
\* result has exactly that section; and before the limit is applied no stored
\* entry that matches the given filters and scores above 0 is omitted.
C11_Filters ==
  pc = "returned" =>
    /\ call.version # Undefined =>
         \A j \in 1..Len(result) : result[j].version = call.version[1]
    /\ call.section # Undefined =>
         \A j \in 1..Len(result) : result[j].section = call.section[1]
    /\ call.limit = Undefined =>
         \A i \in 1..Len(index) :
           (MatchesGiven(i) /\ WeightedSum(CallTokens, index[i]) > 0)
           => \E j \in 1..Len(result) : Reports(j, i)

\* result j carries the fields of the record t
ReportsRecord(j, t) ==
  /\ result[j].topic_id = t.id
  /\ result[j].version = t.version
  /\ result[j].title = t.title
  /\ result[j].section = t.section
  /\ result[j].summary = t.summary
  /\ result[j].url = t.url

\* C12: after clear() every search returns an empty list until addTopic is
\* called again; topics added after a clear are searchable and no topic added
\* before the clear ever reappears (every result carries a record added since
\* the last clear); clear() can always be called, on an empty index too.
C12_Clear ==
  /\ pc = "returned" =>
       /\ addedAs = <<>> => result = <<>>
       /\ \A j \in 1..Len(result) : \E i \in 1..Len(addedAs) : ReportsRecord(j, addedAs[i])
       /\ (call.version = Undefined /\ call.section = Undefined /\ call.limit = Undefined) =>
            \A i \in 1..Len(addedAs) :
              WeightedSum(CallTokens, EntryTable[addedAs[i]]) > 0
              => \E j \in 1..Len(result) : ReportsRecord(j, addedAs[i])
  /\ pc = "ready" => ENABLED ClearTracked

\* a clear removed two topics, one topic of another (version, id) was added
\* afterwards, and an unfiltered search found that one alone
W_C12_OnlyTheNew ==
  /\ pc = "returned"
  /\ Cardinality(stale) = 2
  /\ Len(addedAs) = 1
  /\ <<addedAs[1].version, addedAs[1].id>> \notin stale
  /\ call.version = Undefined /\ call.limit = Undefined
  /\ Len(result) = 1

\* a clear removed topics and the search right after it found nothing
W_C12_EmptyAfterClear ==
  /\ pc = "returned"
  /\ stale # {}
  /\ addedAs = <<>>
  /\ result = <<>>

\* C13: addTopic with a (version, id) already present replaces the stored
\* entry wholesale (last write wins, no merge): the entry stored for a pair is
\* the one built from the latest record added under it, a result's score is
\* computed from that record's title, summary and chunks only, a query that
\* matches nothing in the latest record does not return the pair, and a
\* search returns at most one result per (version, id).
C13_Replace ==
  /\ Len(index) = Len(addedAs)
  /\ \A i \in 1..Len(index) : index[i] = EntryTable[addedAs[i]]
  /\ pc = "returned" =>
       /\ \A j1, j2 \in 1..Len(result) :
            (result[j1].topic_id = result[j2].topic_id
               /\ result[j1].version = result[j2].version) => j1 = j2
       /\ \A j \in 1..Len(result) : \E i \in 1..Len(addedAs) :
            /\ ReportsRecord(j, addedAs[i])
            /\ result[j].score = WeightedSum(CallTokens, EntryTable[addedAs[i]])
       /\ \A i \in 1..Len(addedAs) :
            WeightedSum(CallTokens, EntryTable[addedAs[i]]) = 0
            => \A j \in 1..Len(result) :
                 ~(result[j].topic_id = addedAs[i].id /\ result[j].version = addedAs[i].version)

\* the only pair stored was written over by a different record; every record
\* but the latest one has the query term, and the search found nothing
W_C13_EarlierTermGone ==
  /\ pc = "returned"
  /\ call.query = <<"a">>
  /\ call.version = Undefined /\ call.limit = Undefined
  /\ Len(addedAs) = 1
  /\ <<addedAs[1].version, addedAs[1].id>> \in replaced
  /\ addedAs[1].title = <<"C", "+", "+">>
  /\ \A t \in Topics : t.title # addedAs[1].title => WeightedSum(CallTokens, EntryTable[t]) > 0
  /\ result = <<>>

\* the normalized name of a symbol form, whatever its letter case
NameOf(form) ==
  IF toLowerCase(form) = <<"c", "+", "+">> THEN CPlusPlus
  ELSE IF toLowerCase(form) = <<"c", "#">> THEN CSharp
  ELSE DotNet

\* the symbol a query asks for: a symbol form, or a normalized name
AskedName(query) ==
  IF query \in SymbolForms THEN NameOf(query) ELSE toLowerCase(query)

\* the text holds, as a word, a form of the symbol with this normalized name
HoldsSymbol(text, name) ==
  \E f \in SymbolForms :
    /\ NameOf(f) = name
    /\ text \in {f, <<"x", SP>> \o f, f \o <<",", SP, "y">>}

\* the record holds the symbol in its title, its summary or one of its chunks
TopicHoldsSymbol(t, name) ==
  \/ HoldsSymbol(t.title, name)
  \/ HoldsSymbol(t.summary, name)
  \/ \E k \in 1..Len(t.body_chunks) : HoldsSymbol(t.body_chunks[k].text, name)

\* C14: symbol normalization round-trips between indexing and querying: a
\* topic whose title, summary or body holds the token "C++" ("C#", ".NET") is
\* returned by search("c-plus-plus") ("c-sharp", "dot-net") and by a search
\* for the symbol itself, in any letter case.
C14_Symbols ==
  pc = "returned" =>
    \A i \in 1..Len(index) :
      TopicHoldsSymbol(index[i].topic, AskedName(call.query))
      => \E j \in 1..Len(result) : Reports(j, i)

\* "C#" was looked for, the index holds it in a chunk of one topic and a
\* different symbol in the other, and the first alone was returned
W_C14_CSharpInBody ==
  /\ pc = "returned"
  /\ call.query = <<"C", "#">>
  /\ Len(index) = 2
  /\ index[1].topic.body_chunks # <<>>
  /\ HoldsSymbol(index[1].topic.body_chunks[2].text, CSharp)
  /\ TopicHoldsSymbol(index[2].topic, DotNet)
  /\ Len(result) = 1
  /\ Reports(1, 1)

(***************************************************************************)
(* Further claims about the chunker                                        *)
(***************************************************************************)
\* C15: no empty chunk is ever emitted: every chunk returned by
\* chunkBodyText, and by chunkTopic when it re-chunks existing chunks, has a
\* text that is non-empty after trimming.
C15_NoEmptyChunk ==
  cPc \in {"body", "topic"} => \A i \in 1..Len(cOut) : trim(cOut[i].text) # <<>>

\* C16: degenerate inputs yield an empty sequence and never an error:
\* chunkBodyText returns [] for an empty or whitespace-only body text, and
\* chunkTopic without body text on a record with no existing chunks returns
\* []; both calls can always be made on such inputs.
C16_Degenerate ==
  /\ (cPc = "body" /\ trim(BodyText) = <<>>) => cOut = <<>>
  /\ (cPc = "topic" /\ cIn = <<>>) => cOut = <<>>
  /\ (cPc = "input" /\ Len(cIn) <= 1 /\ trim(BodyText) = <<>>) => ENABLED ChunkBodyText
  /\ (cPc = "input" /\ cIn = <<>>) => ENABLED ChunkTopic

\* chunkBodyText ran on a body of whitespace alone and returned nothing
W_C16_BlankBody == cPc = "body" /\ cIn = <<Blank>> /\ cOut = <<>>

\* chunkTopic ran on a record with no existing chunks and returned nothing
W_C16_NoChunks == cPc = "topic" /\ cIn = <<>> /\ cOut = <<>>

\* the text starts with the prefix
StartsWith(text, prefix) ==
  Len(prefix) <= Len(text) /\ SubSeq(text, 1, Len(prefix)) = prefix

\* the part occurs somewhere in the text
Contains(text, part) ==
  \E p \in 1..(Len(text) - Len(part) + 1) : SubSeq(text, p, p + Len(part) - 1) = part

\* the heading line of a section, rebuilt at its depth: "#" x level, a space, the title
HeadingLine(sec) == Hashes(sec.level) \o <<SP>> \o sec.title

\* the sections chunkBodyText finds in the body text
BodySections == Sections(BodyText, headingMatches(BodyText, 1))

\* the chunk carries content of section k: a paragraph of it that occurs in
\* no other section
CarriesContentOf(chunk, k) ==
  \E q \in 1..Len(Paragraphs(BodySections[k].content)) :
    LET para == trim(Paragraphs(BodySections[k].content)[q])
    IN  /\ Contains(chunk.text, para)
        /\ \A k2 \in 1..Len(BodySections) :
             k2 # k => ~Contains(SectionText(BodySections[k2]), para)

\* the sections with a heading whose estimate exceeds the budget
SplitSections ==
  {k \in 1..Len(BodySections) :
     /\ BodySections[k].level > 0
     /\ estimateTokens(SectionText(BodySections[k])) > cBudget}

\* C17: when chunkBodyText splits a heading section whose estimate exceeds
\* the budget, every chunk that carries content of that section (the first
\* one and every one after it) starts with the section's heading line,
\* rebuilt at the same '#' depth.
C17_HeadingKept ==
  cPc = "body" =>
    \A k \in SplitSections : \A i \in 1..Len(cOut) :
      CarriesContentOf(cOut[i], k) => StartsWith(cOut[i].text, HeadingLine(BodySections[k]))

\* a section of depth 2 was split in two chunks after the chunk of the
\* section before it, and the last chunk carries its content under its heading
W_C17_SplitInTwo ==
  /\ cPc = "body"
  /\ Len(BodySections) = 2
  /\ SplitSections = {2}
  /\ BodySections[2].level = 2
  /\ Len(cOut) = 3
  /\ CarriesContentOf(cOut[2], 2)
  /\ CarriesContentOf(cOut[3], 2)
  /\ StartsWith(cOut[3].text, <<"#", "#", SP, "h">>)

\* the body is made of two heading sections and nothing before them
TwoHeadingSections ==
  /\ Len(BodySections) = 2
  /\ BodySections[1].level > 0
  /\ BodySections[2].level > 0

\* the two sections joined by a blank line
JoinedSections == SectionText(BodySections[1]) \o <<NL, NL>> \o SectionText(BodySections[2])

\* C18: for a body made of two heading sections chunkBodyText returns exactly
\* one chunk containing both headings when the estimate of the two sections
\* joined by a blank line is <= B, and exactly two chunks, each starting with
\* its own heading line, when each section fits B on its own but the two
\* joined do not.
C18_TwoSections ==
  (cPc = "body" /\ TwoHeadingSections) =>
    /\ estimateTokens(JoinedSections) <= cBudget =>
         /\ Len(cOut) = 1
         /\ Contains(cOut[1].text, HeadingLine(BodySections[1]))
         /\ Contains(cOut[1].text, HeadingLine(BodySections[2]))
    /\ (/\ estimateTokens(SectionText(BodySections[1])) <= cBudget
        /\ estimateTokens(SectionText(BodySections[2])) <= cBudget
        /\ estimateTokens(JoinedSections) > cBudget) =>
         /\ Len(cOut) = 2
         /\ StartsWith(cOut[1].text, HeadingLine(BodySections[1]))
         /\ StartsWith(cOut[2].text, HeadingLine(BodySections[2]))

\* the existing chunk is over budget, has no heading, and consists of several
\* paragraphs that each fit the budget
ParagraphsFit(text) ==
  /\ estimateTokens(text) > cBudget
  /\ headingMatches(text, 1) = <<>>
  /\ Len(Paragraphs(text)) >= 2
  /\ \A q \in 1..Len(Paragraphs(text)) : estimateTokens(Paragraphs(text)[q]) <= cBudget

\* C19: when chunkTopic re-chunks existing chunks, an over-budget chunk
\* without headings that consists of several paragraphs each within budget
\* is split at paragraph boundaries into chunks that each fit the budget.
C19_ParagraphSplit ==
  (cPc = "topic" /\ Len(cIn) = 1 /\ ParagraphsFit(cIn[1])) =>
    /\ Len(cOut) >= 2
    /\ \A i \in 1..Len(cOut) : cOut[i].token_count <= cBudget

(***************************************************************************)
(* parser/html-parser.ts                                                   *)
(*                                                                         *)
(* A document is what cheerio sees of it: whether it loads, the texts the  *)
(* title selectors find, the breadcrumb containers, the text of the main   *)
(* content and the elements the navigation selectors can match, in         *)
(* document order.  An address (options.url, an href) is its text together *)
(* with what the WHATWG URL parser makes of it.                            *)
(***************************************************************************)
\* a step that returned a value, and a step that threw
Returned(value) == [ok |-> TRUE, value |-> value]
Thrown(message) == [ok |-> FALSE, message |-> message]

InvalidURL == <<"I", "n", "v", "a", "l", "i", "d", SP, "U", "R", "L">>

\* the path of a URL as text: "/" before every segment
RECURSIVE PathString(_)
PathString(path) ==
  IF path = <<>> THEN <<>> ELSE <<"/">> \o Head(path) \o PathString(Tail(path))

\* URL.pathname
Pathname(path) == IF path = <<>> THEN <<"/">> ELSE PathString(path)

Front(s) == IF s = <<>> THEN <<>> ELSE SubSeq(s, 1, Len(s) - 1)

\* new URL(url): only an absolute address parses
NewURL1(url) ==
  IF url.parse = "absolute"
  THEN Returned([origin |-> url.origin, path |-> url.path, href |-> url.text])
  ELSE Thrown(InvalidURL)

\* new URL(href, baseUrl): the base is parsed first; an absolute href stands
\* for itself, a relative one is resolved against the base
NewURL(href, baseUrl) ==
  IF baseUrl.parse # "absolute" \/ href.parse = "invalid" THEN Thrown(InvalidURL)
  ELSE IF href.parse = "absolute" THEN NewURL1(href)
  ELSE LET path == IF StartsWith(href.text, <<"/">>) THEN href.path
                   ELSE IF StartsWith(href.text, <<"#">>) THEN baseUrl.path
                   ELSE Front(baseUrl.path) \o href.path
           frag == IF StartsWith(href.text, <<"#">>) THEN href.text ELSE <<>>
       IN  Returned([origin |-> baseUrl.origin, path |-> path,
                     href |-> baseUrl.origin \o Pathname(path) \o frag])

\* s.replace(/^\//, "")
StripLeadingSlash(s) == IF StartsWith(s, <<"/">>) THEN Tail(s) ELSE s

\* extractTitle
extractTitle(doc) ==
  IF trim(doc.titleTag) # <<>> THEN trim(doc.titleTag)
  ELSE IF trim(doc.h1) # <<>> THEN trim(doc.h1)
  ELSE IF trim(doc.pageTitle) # <<>> THEN trim(doc.pageTitle)
  ELSE <<"U", "n", "t", "i", "t", "l", "e", "d">>

\* the crumbs of one breadcrumb container: trimmed, without the empty ones and "Home"
Crumbs(items) ==
  SelectSeq([i \in 1..Len(items) |-> trim(items[i])],
            LAMBDA text : Len(text) > 0 /\ text # <<"H", "o", "m", "e">>)

\* extractBreadcrumbs: the first container, in selector order, that has crumbs
RECURSIVE extractBreadcrumbs(_)
extractBreadcrumbs(containers) ==
  IF containers = <<>> THEN <<>>
  ELSE IF Len(Crumbs(Head(containers))) > 0 THEN Crumbs(Head(containers))
  ELSE extractBreadcrumbs(Tail(containers))

UpperChar(c) ==
  IF \E i \in 1..26 : LowerCase[i] = c
  THEN UpperCase[CHOOSE i \in 1..26 : LowerCase[i] = c] ELSE c

\* part.replace(/-/g, " ").replace(/\b\w/g, (l) => l.toUpperCase())
NormalizePart(part) ==
  LET spaced == ReplaceAll(part, <<"-">>, <<SP>>)
  IN  [i \in 1..Len(spaced) |->
         IF IsWord(spaced[i]) /\ (i = 1 \/ ~IsWord(spaced[i - 1]))
         THEN UpperChar(spaced[i]) ELSE spaced[i]]

commonSections ==
  <<<<"L", "a", "n", "g", "u", "a", "g", "e">>, <<"G", "e", "n", "e", "r", "a", "l", SP, "G", "u", "i", "d", "e", "s">>, <<"D", "a", "t", "a", SP, "A", "c", "c", "e", "s", "s">>, <<"D", "e", "v", "e", "l", "o", "p", "m", "e", "n", "t", SP, "T", "o", "o", "l", "s">>, <<"U", "p", "d", "a", "t", "i", "n", "g">>>>

SkippedCrumbs == {<<"H", "o", "m", "e">>, <<"D", "o", "c", "u", "m", "e", "n", "t", "a", "t", "i", "o", "n">>, <<"D", "o", "c", "s">>}

\* the first path part that some common section name includes
RECURSIVE SectionFromParts(_)
SectionFromParts(parts) ==
  IF parts = <<>> THEN <<"U", "n", "k", "n", "o", "w", "n">>
  ELSE LET normalized == NormalizePart(Head(parts))
       IN  IF \E k \in 1..Len(commonSections) :
                Contains(toLowerCase(commonSections[k]), toLowerCase(normalized))
           THEN normalized
           ELSE SectionFromParts(Tail(parts))

\* extractSection: a URL that does not parse is ignored
extractSection(breadcrumbs, url) ==
  LET named == SelectSeq(breadcrumbs, LAMBDA crumb : crumb \notin SkippedCrumbs)
      urlObj == NewURL1(url)
  IN  IF named # <<>> THEN named[1]
      ELSE IF urlObj.ok
      THEN SectionFromParts(SelectSeq(urlObj.value.path, LAMBDA p : p # <<>>))
      ELSE <<"U", "n", "k", "n", "o", "w", "n">>

SummaryLength == 200
SentenceFloor == 100

\* s.lastIndexOf("."), counted from 0; -1 when there is none
LastPeriod(s) ==
  LET at == {i \in 1..Len(s) : s[i] = "."}
  IN  IF at = {} THEN -1 ELSE MaxOf(at) - 1

\* the summary parseHtml makes of the body text
Summary(bodyText) ==
  LET summary == trim(SubSeq(bodyText, 1, MinOf({Len(bodyText), SummaryLength})))
  IN  IF Len(bodyText) > SummaryLength
      THEN IF LastPeriod(summary) > SentenceFloor
           THEN SubSeq(summary, 1, LastPeriod(summary) + 1)
           ELSE summary \o <<".", ".", ".">>
      ELSE summary

\* normalizeUrlToTopicId: a URL that does not parse gives the href as it is
normalizeUrlToTopicId(href, baseUrl) ==
  LET url  == NewURL(href, baseUrl)
      base == NewURL1(baseUrl)
  IN  IF ~url.ok \/ ~base.ok THEN StripLeadingSlash(href.text)
      ELSE IF url.value.origin = base.value.origin
      THEN LET pathname == StripLeadingSlash(PathString(url.value.path))
               basePath == StripLeadingSlash(PathString(base.value.path))
               relative == IF basePath # <<>> /\ StartsWith(pathname, basePath \o <<"/">>)
                           THEN SubSeq(pathname, Len(basePath) + 2, Len(pathname))
                           ELSE pathname
           IN  IF relative # <<>> THEN relative ELSE Pathname(url.value.path)
      ELSE url.value.href

\* the selectors of extractNavigationLinks
Rel(val)       == [on |-> "rel", val |-> val]
Class(val)     == [on |-> "class", val |-> val]
ClassHas(val)  == [on |-> "classHas", val |-> val]
Within(val)    == [on |-> "within", val |-> val]
WithinHas(val) == [on |-> "withinHas", val |-> val]

prevSelectors    == <<Rel(<<"p", "r", "e", "v">>), Class(<<"p", "r", "e", "v">>), Class(<<"p", "r", "e", "v", "i", "o", "u", "s">>), ClassHas(<<"p", "r", "e", "v">>)>>
nextSelectors    == <<Rel(<<"n", "e", "x", "t">>), Class(<<"n", "e", "x", "t">>), ClassHas(<<"n", "e", "x", "t">>)>>
parentSelectors  == <<Rel(<<"u", "p">>), Class(<<"p", "a", "r", "e", "n", "t">>), ClassHas(<<"p", "a", "r", "e", "n", "t">>)>>
relatedSelectors == <<Rel(<<"r", "e", "l", "a", "t", "e", "d">>), Within(<<"r", "e", "l", "a", "t", "e", "d">>), WithinHas(<<"r", "e", "l", "a", "t", "e", "d">>),
                      Within(<<"s", "e", "e", "-", "a", "l", "s", "o">>)>>

\* does the element match the selector: a[rel='v'], .v, [class*='v'], .v a, [class*='v'] a
Matches(el, sel) ==
  CASE sel.on = "rel"       -> el.tag = "a" /\ el.rel = sel.val
    [] sel.on = "class"     -> el.class = sel.val
    [] sel.on = "classHas"  -> Contains(el.class, sel.val)
    [] sel.on = "within"    -> el.tag = "a" /\ el.inside = sel.val
    [] sel.on = "withinHas" -> el.tag = "a" /\ Contains(el.inside, sel.val)

\* `if (href)`: the attribute is there and is not the empty string
HasHref(el) == el.href # Undefined /\ el.href[1].text # <<>>

\* $link.text().trim() || $link.attr("title") || undefined
LinkTitle(el) ==
  IF trim(el.text) # <<>> THEN Some(trim(el.text))
  ELSE IF el.title # Undefined /\ el.title[1] # <<>> THEN el.title
  ELSE Undefined

\* the link pushed for an element; resolving its href may throw
LinkOf(el, type, baseUrl) ==
  LET href == el.href[1]
      url  == IF StartsWith(href.text, <<"h", "t", "t", "p">>) THEN Returned(href.text)
              ELSE LET resolved == NewURL(href, baseUrl)
                   IN  IF resolved.ok THEN Returned(resolved.value.href) ELSE resolved
  IN  IF url.ok
      THEN Returned([type |-> type,
                     target_topic_id |-> normalizeUrlToTopicId(href, baseUrl),
                     title |-> LinkTitle(el),
                     url |-> url.value])
      ELSE url

\* faulty variant: no `break`, every selector whose first match has an href gives a link
RECURSIVE FirstLinkEvery(_, _, _, _)
FirstLinkEvery(elems, selectors, type, baseUrl) ==
  IF selectors = <<>> THEN <<>>
  ELSE LET hits == {i \in 1..Len(elems) : Matches(elems[i], Head(selectors))}
       IN  (IF hits # {} /\ HasHref(elems[MinOf(hits)])
            THEN <<LinkOf(elems[MinOf(hits)], type, baseUrl)>> ELSE <<>>)
             \o FirstLinkEvery(elems, Tail(selectors), type, baseUrl)

\* prev, next, parent: the first selector whose first match has an href gives the link
RECURSIVE FirstLink(_, _, _, _)
FirstLink(elems, selectors, type, baseUrl) ==
  IF selectors = <<>> THEN <<>>
  ELSE LET hits == {i \in 1..Len(elems) : Matches(elems[i], Head(selectors))}
       IN  IF hits # {} /\ HasHref(elems[MinOf(hits)])
           THEN <<LinkOf(elems[MinOf(hits)], type, baseUrl)>>
           ELSE FirstLink(elems, Tail(selectors), type, baseUrl)

\* related: every match of every selector, but for fragments and mail addresses
RECURSIVE RelatedLinks(_, _, _)
RelatedLinks(elems, selectors, baseUrl) ==
  IF selectors = <<>> THEN <<>>
  ELSE LET taken == SelectSeq(elems, LAMBDA el :
                      /\ Matches(el, Head(selectors))
                      /\ HasHref(el)
                      /\ ~StartsWith(el.href[1].text, <<"#">>)
                      /\ ~StartsWith(el.href[1].text, <<"m", "a", "i", "l", "t", "o", ":">>))
       IN  [i \in 1..Len(taken) |-> LinkOf(taken[i], "related", baseUrl)]
             \o RelatedLinks(elems, Tail(selectors), baseUrl)

\* extractNavigationLinks: the first href that does not resolve ends it with the error
extractNavigationLinks(elems, baseUrl) ==
  LET pushed == FirstLink(elems, prevSelectors, "prev", baseUrl)
                  \o FirstLink(elems, nextSelectors, "next", baseUrl)
                  \o FirstLink(elems, parentSelectors, "parent", baseUrl)
                  \o RelatedLinks(elems, relatedSelectors, baseUrl)
      failed == {i \in 1..Len(pushed) : ~pushed[i].ok}
  IN  IF failed # {} THEN pushed[MinOf(failed)]
      ELSE Returned([i \in 1..Len(pushed) |-> pushed[i].value])

\* errors.ts: createError and parseError
createError(code, message, details, retryable) ==
  [code |-> code, message |-> message, details |-> details, retryable |-> retryable]

parseError(operation, reason, details) ==
  createError("PARSE_ERROR",
              <<"P", "a", "r", "s", "e", SP, "e", "r", "r", "o", "r", SP, "d", "u", "r", "i", "n", "g", SP>> \o operation
                \o (IF reason # <<>> THEN <<":", SP>> \o reason ELSE <<>>),
              details @@ [operation |-> operation, reason |-> reason],
              FALSE)

LoadFailure == <<"h", "t", "m", "l", SP, "i", "s", SP, "n", "o", "t", SP, "a", SP, "s", "t", "r", "i", "n", "g">>

\* parseHtml: the topic, or the error thrown for whatever was thrown inside
parseHtml(html, options) ==
  LET breadcrumbs == extractBreadcrumbs(html.breadcrumbs)
      links       == extractNavigationLinks(html.elems, options.url)
      thrown      == IF ~html.loads THEN Thrown(LoadFailure)
                     ELSE IF ~links.ok THEN links
                     ELSE Returned(TRUE)
  IN  IF thrown.ok
      THEN [ok |-> TRUE,
            topic |-> [id |-> normalizeUrlToTopicId(options.url, options.url),
                       version |-> IF options.version = Undefined THEN <<"l", "a", "t", "e", "s", "t">>
                                   ELSE options.version[1],
                       title |-> extractTitle(html),
                       section |-> extractSection(breadcrumbs, options.url),
                       path |-> breadcrumbs,
                       summary |-> Summary(html.bodyText),
                       body_chunks |-> <<>>,
                       links |-> links.value,
                       url |-> options.url.text,
                       source |-> options.source]]
      ELSE [ok |-> FALSE,
            payload |-> parseError(<<"H", "T", "M", "L", SP, "p", "a", "r", "s", "i", "n", "g">>, thrown.message,
                                   [url |-> options.url.text, version |-> options.version])]

(***************************************************************************)
(* The documents and options parseHtml is called with                      *)
(***************************************************************************)
MaxElems == 2

Address(text, parse, origin, path) ==
  [text |-> text, parse |-> parse, origin |-> origin, path |-> path]

DocsOrigin  == <<"h", "t", "t", "p", "s", ":", "/", "/", "d", ".", "i", "o">>
OtherOrigin == <<"h", "t", "t", "p", "s", ":", "/", "/", "o", ".", "i", "o">>

\* options.url: a topic below a section, a topic at the root, a path with no scheme
TopicUrl == Address(DocsOrigin \o <<"/", "d", "o", "c", "s", "/", "l", "a", "n", "g", "u", "a", "g", "e", "/", "a", ".", "h", "t", "m">>, "absolute", DocsOrigin, <<<<"d", "o", "c", "s">>, <<"l", "a", "n", "g", "u", "a", "g", "e">>, <<"a", ".", "h", "t", "m">>>>)
RootUrl  == Address(DocsOrigin \o <<"/", "a", ".", "h", "t", "m">>, "absolute", DocsOrigin, <<<<"a", ".", "h", "t", "m">>>>)
BareUrl  == Address(<<"d", "o", "c", "s", "/", "a", ".", "h", "t", "m">>, "relative", <<>>, <<<<"d", "o", "c", "s">>, <<"a", ".", "h", "t", "m">>>>)
SourceUrls == {TopicUrl, RootUrl, BareUrl}

RelativeHref == Address(<<"b", ".", "h", "t", "m">>, "relative", <<>>, <<<<"b", ".", "h", "t", "m">>>>)
RootHref     == Address(<<"/", "i", "n", "d", "e", "x", ".", "h", "t", "m">>, "relative", <<>>, <<<<"i", "n", "d", "e", "x", ".", "h", "t", "m">>>>)
OtherHref    == Address(OtherOrigin \o <<"/", "x", ".", "h", "t", "m">>, "absolute", OtherOrigin, <<<<"x", ".", "h", "t", "m">>>>)
FragmentHref == Address(<<"#", "t", "o", "p">>, "relative", <<>>, <<>>)
MailHref     == Address(<<"m", "a", "i", "l", "t", "o", ":", "a", "@", "d", ".", "i", "o">>, "absolute", <<"n", "u", "l", "l">>, <<>>)
BrokenHref   == Address(<<"/", "/", "[">>, "invalid", <<>>, <<>>)
BrokenHttp   == Address(<<"h", "t", "t", "p", ":", "/", "/", "[">>, "invalid", <<>>, <<>>)
EmptyHref    == Address(<<>>, "relative", <<>>, <<>>)

Element(tag, rel, class, inside, href, text, title) ==
  [tag |-> tag, rel |-> rel, class |-> class, inside |-> inside,
   href |-> href, text |-> text, title |-> title]

Elements ==
  { Element("a", <<"p", "r", "e", "v">>, <<>>, <<>>, Some(RelativeHref), <<"B", "a", "c", "k">>, Undefined),
    Element("div", <<>>, <<"p", "r", "e", "v">>, <<>>, Undefined, <<"B", "a", "c", "k">>, Undefined),
    Element("a", <<>>, <<"p", "r", "e", "v", "i", "o", "u", "s">>, <<>>, Some(OtherHref), <<>>, Some(<<"B", "e", "f", "o", "r", "e">>)),
    Element("a", <<"p", "r", "e", "v">>, <<>>, <<>>, Some(BrokenHttp), <<>>, Undefined),
    Element("a", <<"n", "e", "x", "t">>, <<>>, <<>>, Some(BrokenHref), <<"O", "n">>, Undefined),
    Element("a", <<>>, <<"n", "e", "x", "t">>, <<>>, Some(RelativeHref), <<SP, "O", "n", SP>>, Undefined),
    Element("a", <<"u", "p">>, <<>>, <<>>, Some(RootHref), <<"U", "p">>, Undefined),
    Element("a", <<>>, <<"p", "a", "r", "e", "n", "t">>, <<>>, Some(EmptyHref), <<"U", "p">>, Undefined),
    Element("a", <<>>, <<>>, <<"r", "e", "l", "a", "t", "e", "d">>, Some(RelativeHref), <<"S", "e", "e">>, Undefined),
    Element("a", <<>>, <<>>, <<"s", "e", "e", "-", "a", "l", "s", "o">>, Some(FragmentHref), <<"T", "o", "p">>, Undefined),
    Element("a", <<"r", "e", "l", "a", "t", "e", "d">>, <<>>, <<>>, Some(MailHref), <<"M", "a", "i", "l">>, Undefined) }

Rep(c, n) == [i \in 1..n |-> c]

\* the page around the links: title texts, breadcrumb containers, body text
Page(titleTag, h1, pageTitle, breadcrumbs, bodyText) ==
  [titleTag |-> titleTag, h1 |-> h1, pageTitle |-> pageTitle,
   breadcrumbs |-> breadcrumbs, bodyText |-> bodyText]

Pages ==
  { Page(<<SP, "T", SP>>, <<"H">>, <<>>, <<<<<<"H", "o", "m", "e">>, <<"D", "o", "c", "s">>, <<SP, "D", "a", "t", "a", SP, "A", "c", "c", "e", "s", "s">>>>>>, <<"I", "n", "t", "r", "o", ".">>),
    Page(<<SP>>, <<"H">>, <<"P">>, <<<<<<"H", "o", "m", "e">>, <<>>>>, <<<<"D", "o", "c", "s">>>>>>,
         Rep("x", 150) \o <<".">> \o Rep("y", 100)),
    Page(<<>>, <<>>, <<"P">>, <<>>, Rep("x", 50) \o <<".">> \o Rep("y", 200)),
    Page(<<>>, <<>>, <<>>, <<>>, <<>>) }

ParserVersions == {Undefined, Some(<<"v", "1">>)}

Documents ==
  { [loads |-> loads, titleTag |-> page.titleTag, h1 |-> page.h1,
     pageTitle |-> page.pageTitle, breadcrumbs |-> page.breadcrumbs,
     bodyText |-> page.bodyText, elems |-> elems] :
      loads \in BOOLEAN, page \in Pages, elems \in SeqsUpTo(Elements, MaxElems) }

ParserInputs ==
  { [html |-> html, options |-> [url |-> url, version |-> version, source |-> "online"]] :
      html \in Documents, url \in SourceUrls, version \in ParserVersions }

InitParse ==
  /\ IndexIdle /\ ChunkerIdle /\ LimitIdle /\ HybridIdle /\ GetTopicIdle /\ RateIdle
  /\ pIn \in ParserInputs
  /\ pPc = "input"
  /\ pOut = <<>>

\* parseHtml(html, options)
ParseHtml ==
  /\ pPc = "input"
  /\ pOut' = parseHtml(pIn.html, pIn.options)
  /\ pPc' = "done"
  /\ UNCHANGED <<pIn, index, addedAs, mutations, stale, replaced, pc, call, result,
                 chunkerVars, limitVars, hybridVars, getTopicVars, rateVars>>

NextParse == ParseHtml

SpecParse == InitParse /\ [][NextParse]_vars

(***************************************************************************)
(* Claims about the extractor                                              *)
(***************************************************************************)
\* C20: parseHtml fails only when the raw document cannot be loaded: a failure
\* inside a heuristic step, resolving a navigation link's href against the
\* source URL among them, gives the step's fallback and a topic is still
\* returned; and the error of a failed extraction carries the source URL and
\* the version.
C20_FailsOnlyOnFatal ==
  pPc = "done" =>
    /\ ~pOut.ok => ~pIn.html.loads
    /\ ~pOut.ok => /\ pOut.payload.details.url = pIn.options.url.text
                   /\ pOut.payload.details.version = pIn.options.version

\* the selectors tried for a kind of link
KindSelectors(kind) ==
  CASE kind = "prev" -> prevSelectors
    [] kind = "next" -> nextSelectors
    [] kind = "parent" -> parentSelectors

SingleKinds == {"prev", "next", "parent"}

\* the links of one kind in the topic returned
LinksOfKind(kind) == SelectSeq(pOut.topic.links, LAMBDA l : l.type = kind)

\* the first element in document order the selector matches; 0 when it matches none
FirstMatch(elems, sel) ==
  LET hits == {i \in 1..Len(elems) : Matches(elems[i], sel)}
  IN  IF hits = {} THEN 0 ELSE MinOf(hits)

\* the element a kind's link comes from when only selectors whose first match
\* passes `usable` count; 0 when there is none
ChosenElement(elems, selectors, usable(_)) ==
  LET ks == {k \in 1..Len(selectors) :
               /\ FirstMatch(elems, selectors[k]) # 0
               /\ usable(elems[FirstMatch(elems, selectors[k])])}
  IN  IF ks = {} THEN 0 ELSE FirstMatch(elems, selectors[MinOf(ks)])

\* the link is the one built from the element
BuiltFrom(link, el) ==
  /\ HasHref(el)
  /\ link.title = LinkTitle(el)
  /\ link.target_topic_id = normalizeUrlToTopicId(el.href[1], pIn.options.url)

\* at most one link of each single kind, and it comes from the chosen element
SingleLinksFrom(usable(_)) ==
  (pPc = "done" /\ pOut.ok) =>
    \A kind \in SingleKinds :
      LET chosen == ChosenElement(pIn.html.elems, KindSelectors(kind), usable)
          links  == LinksOfKind(kind)
      IN  /\ Len(links) <= 1
          /\ (chosen = 0 \/ ~HasHref(pIn.html.elems[chosen])) => links = <<>>
          /\ (chosen # 0 /\ HasHref(pIn.html.elems[chosen]))
               => Len(links) = 1 /\ BuiltFrom(links[1], pIn.html.elems[chosen])

AnyElement(el) == TRUE

W_C21_ManyRelated ==
  /\ pPc = "done" /\ pOut.ok
  /\ Len(LinksOfKind("related")) >= 2

(***************************************************************************)
(* providers/provider-factory.ts: createProvider and HybridProvider        *)
(*                                                                         *)
(* fetchTopic is asynchronous: it awaits the local provider, then the      *)
(* online one.  What a provider answers is the environment's choice.       *)
(***************************************************************************)
MaxFetches == 3

FetchIds      == {"a", "b"}
FetchVersions == {Undefined, Some("v1")}
LocalDocPaths == {Undefined, Some(""), Some("/docs")}

\* what LocalProvider.fetchTopic and OnlineProvider.fetchTopic throw
LocalErrors ==
  {[code |-> "PROVIDER_ERROR", provider |-> "local", reason |-> r, error |-> e] :
     r \in {"Topic not found", "Failed to fetch topic"}, e \in {"ENOENT"}}
OnlineErrors ==
  {[code |-> "PROVIDER_ERROR", provider |-> "online", reason |-> r, error |-> e] :
     r \in {"Failed to fetch topic"}, e \in {"HTTP 404", "fetch failed"}}

\* the topic LocalProvider.fetchTopic returns
LocalTopic(urlOrId, version) ==
  [id |-> urlOrId, version |-> IF version = Undefined THEN "local" ELSE version[1],
   source |-> "local"]

\* the topic OnlineProvider.fetchTopic returns
OnlineTopic(urlOrId, version) ==
  [id |-> urlOrId, version |-> IF version = Undefined THEN "latest" ELSE version[1],
   source |-> "online"]

\* createProvider: a hybrid provider when config.localDocPath is set, else the online one
createProvider(localDocPath) ==
  IF localDocPath # Undefined /\ localDocPath[1] # ""
  THEN [source |-> "hybrid", localProvider |-> TRUE]
  ELSE [source |-> "online", localProvider |-> FALSE]

\* faulty variant: the local provider is never asked
FirstProviderOnline(provider) == "online"

\* `if (this.localProvider)`: the provider fetchTopic awaits first
FirstProvider(provider) ==
  IF provider.source = "hybrid" /\ provider.localProvider THEN "local" ELSE "online"

Event(ev, by, value) == [ev |-> ev, by |-> by, value |-> value]

InitHybrid ==
  /\ IndexIdle /\ ChunkerIdle /\ LimitIdle /\ ParserIdle /\ GetTopicIdle /\ RateIdle
  /\ hProvider = <<>> /\ hPc = "config" /\ hCall = <<>> /\ hLog = <<>> /\ hOut = <<>>

CreateProvider ==
  /\ hPc = "config"
  /\ \E localDocPath \in LocalDocPaths : hProvider' = createProvider(localDocPath)
  /\ hPc' = "ready"
  /\ hCall' = [n |-> 0]
  /\ UNCHANGED <<hLog, hOut, indexVars, chunkerVars, limitVars, parserVars, getTopicVars, rateVars>>

\* provider.fetchTopic(urlOrId, version) is called
FetchTopic ==
  /\ hPc = "ready"
  /\ hCall.n < MaxFetches
  /\ \E urlOrId \in FetchIds, version \in FetchVersions :
       hCall' = [n |-> hCall.n + 1, urlOrId |-> urlOrId, version |-> version]
  /\ hPc' = FirstProvider(hProvider)
  /\ hLog' = <<Event("call", FirstProvider(hProvider), <<>>)>>
  /\ hOut' = <<>>
  /\ UNCHANGED <<hProvider, indexVars, chunkerVars, limitVars, parserVars, getTopicVars, rateVars>>

\* the local provider's promise resolves: the topic is returned
LocalReturns ==
  /\ hPc = "local"
  /\ LET topic == LocalTopic(hCall.urlOrId, hCall.version)
     IN  /\ hLog' = Append(hLog, Event("returned", "local", topic))
         /\ hOut' = [ok |-> TRUE, topic |-> topic]
  /\ hPc' = "ready"
  /\ UNCHANGED <<hProvider, hCall, indexVars, chunkerVars, limitVars, parserVars, getTopicVars, rateVars>>

\* the local provider's promise rejects: the error is logged and the online provider is called
LocalFails ==
  /\ hPc = "local"
  /\ \E error \in LocalErrors :
       hLog' = hLog \o <<Event("failed", "local", error), Event("call", "online", <<>>)>>
  /\ hPc' = "online"
  /\ UNCHANGED <<hProvider, hCall, hOut, indexVars, chunkerVars, limitVars, parserVars, getTopicVars, rateVars>>

\* the online provider's promise resolves: the topic is returned
OnlineReturns ==
  /\ hPc = "online"
  /\ LET topic == OnlineTopic(hCall.urlOrId, hCall.version)
     IN  /\ hLog' = Append(hLog, Event("returned", "online", topic))
         /\ hOut' = [ok |-> TRUE, topic |-> topic]
  /\ hPc' = "ready"
  /\ UNCHANGED <<hProvider, hCall, indexVars, chunkerVars, limitVars, parserVars, getTopicVars, rateVars>>

\* the online provider's promise rejects: fetchTopic rejects with that error
OnlineFails ==
  /\ hPc = "online"
  /\ \E error \in OnlineErrors :
       /\ hLog' = Append(hLog, Event("failed", "online", error))
       /\ hOut' = [ok |-> FALSE, error |-> error]
  /\ hPc' = "ready"
  /\ UNCHANGED <<hProvider, hCall, indexVars, chunkerVars, limitVars, parserVars, getTopicVars, rateVars>>

NextHybrid ==
  CreateProvider \/ FetchTopic \/ LocalReturns \/ LocalFails \/ OnlineReturns \/ OnlineFails

SpecHybrid == InitHybrid /\ [][NextHybrid]_vars

(***************************************************************************)
(* Claims about the providers                                              *)
(***************************************************************************)
LogHas(ev, by) == \E i \in 1..Len(hLog) : hLog[i].ev = ev /\ hLog[i].by = by

\* C22: HybridProvider.fetchTopic asks the local provider first; a topic the
\* local provider returns is the result and the online provider is not called;
\* the online provider is called only right after the local call failed; and
\* when both fail, fetchTopic fails with the online provider's error.
C22_LocalFirst ==
  (hProvider # <<>> /\ hProvider.source = "hybrid") =>
    /\ hLog # <<>> => hLog[1] = Event("call", "local", <<>>)
    /\ \A i \in 1..Len(hLog) :
         (hLog[i].ev = "call" /\ hLog[i].by = "online")
           => i > 1 /\ hLog[i - 1].ev = "failed" /\ hLog[i - 1].by = "local"
    /\ LogHas("returned", "local") =>
         /\ ~LogHas("call", "online")
         /\ hPc = "ready"
         /\ hOut = [ok |-> TRUE, topic |-> LocalTopic(hCall.urlOrId, hCall.version)]
    /\ (LogHas("failed", "local") /\ LogHas("failed", "online")) =>
         /\ hPc = "ready"
         /\ ~hOut.ok
         /\ hOut.error = hLog[Len(hLog)].value
         /\ hOut.error \in OnlineErrors

\* both providers failed and the caller got the online provider's error
W_C22_BothFailed ==
  /\ hProvider # <<>> /\ hProvider.source = "hybrid"
  /\ hPc = "ready"
  /\ LogHas("failed", "local") /\ LogHas("failed", "online")
  /\ ~hOut.ok /\ hOut.error.provider = "online"

(***************************************************************************)
(* cache/cache-manager.ts                                                  *)
(*                                                                         *)
(* The cache directory is a map from file paths below it to file contents. *)
(* A path is its segments after path.join has normalized them.             *)
(***************************************************************************)
\* [A-Za-z0-9._-]
VersionChars == WordChars \cup {".", "-"}

\* version.replace(/[^A-Za-z0-9._-]/g, "_")
sanitizeVersion(version) ==
  [i \in 1..Len(version) |-> IF version[i] \in VersionChars THEN version[i] ELSE "_"]

\* [\/\\:*?"<>|]
UnsafeChars == {"/", "\\", ":", "*", "?", "\"", "<", ">", "|"}

\* faulty variant: every topic id gets the same file name
sanitizeTopicIdFlat(topicId) == [i \in 1..Len(topicId) |-> "_"]

\* topicId.replace(/[\/\\:*?"<>|]/g, "_")
sanitizeTopicId(topicId) ==
  [i \in 1..Len(topicId) |-> IF topicId[i] \in UnsafeChars THEN "_" ELSE topicId[i]]

\* join(cacheDir, version, file): the segments below cacheDir, "." and "" dropped
\* (neither segment holds a "/", and file is never "." or "..")
PathJoin(version, file) ==
  IF version = <<>> \/ version = <<".">> THEN <<file>> ELSE <<version, file>>

\* getCacheFilePath(topicId, version), version already sanitized
getCacheFilePath(topicId, version) ==
  PathJoin(version, sanitizeTopicId(topicId) \o <<".", "j", "s", "o", "n">>)

CachePath(topicId, version) == getCacheFilePath(topicId, sanitizeVersion(version))

\* JSON.stringify(topic): a property whose value is undefined is left out
Stringify(topic) ==
  IF topic.title = Undefined
  THEN [id |-> topic.id, version |-> topic.version, body_chunks |-> topic.body_chunks]
  ELSE [id |-> topic.id, version |-> topic.version, body_chunks |-> topic.body_chunks,
        title |-> topic.title[1]]

\* JSON.parse(content) as Topic: a property that is not there reads as undefined
Parse(content) ==
  [id |-> content.id, version |-> content.version, body_chunks |-> content.body_chunks,
   title |-> IF "title" \in DOMAIN content THEN Some(content.title) ELSE Undefined]

\* CacheManager.get: the topic, or null (Undefined) when the file is not
\* there or cannot be read; throws when the manager is not initialized
CacheGet(cache, topicId, version, readable) ==
  IF ~cache.initialized THEN Thrown("CacheManager not initialized")
  ELSE IF CachePath(topicId, version) \notin DOMAIN cache.files \/ ~readable
  THEN Returned(Undefined)
  ELSE Returned(Some(Parse(cache.files[CachePath(topicId, version)])))

\* CacheManager.set: the files after the write; throws when the write fails
\* or the manager is not initialized
CacheSet(cache, topicId, version, topic, writable) ==
  IF ~cache.initialized THEN Thrown("CacheManager not initialized")
  ELSE IF ~writable THEN Thrown("EACCES")
  ELSE Returned([cache EXCEPT
         !.files = (CachePath(topicId, version) :> Stringify(topic)) @@ cache.files])

(***************************************************************************)
(* tools/get-topic.ts                                                      *)
(*                                                                         *)
(* getTopic awaits the cache, then the provider, then the cache again; one *)
(* action per await.  What the provider answers and whether the cache      *)
(* directory can be read or written is the environment's choice.           *)
(***************************************************************************)
MaxGets == 2

defaultVersion   == <<"l", "a", "t", "e", "s", "t">>
DefaultMaxChunks == 3

\* the chunk counts and titles of the topics the provider serves
Served == {[n |-> 2, title |-> Undefined], [n |-> 4, title |-> Some(<<"T">>)]}

\* the topic provider.fetchTopic(urlOrId, version) resolves to
ProviderTopic(urlOrId, version, served) ==
  [id |-> urlOrId, version |-> version, title |-> served.title,
   body_chunks |-> [i \in 1..served.n |-> [chunk_index |-> i - 1]]]

\* what provider.fetchTopic rejects with: an error payload, an Error whose
\* message has "fetch" in it, any other Error
ProviderFailures == {"payload", "fetch failed", "other"}

GetTopicArgs ==
  [topic_id : {Undefined, Some(<<"a">>)},
   url : {Undefined, Some([text |-> <<"h", "t", "t", "p", "s", ":", "/", "/", "d", ".", "i", "o", "/", "a", ".", "h", "t", "m">>, parse |-> "absolute",
                           origin |-> <<"h", "t", "t", "p", "s", ":", "/", "/", "d", ".", "i", "o">>, path |-> <<<<"a", ".", "h", "t", "m">>>>])},
   version : {Undefined, Some(<<"v", "1">>)},
   max_chunks : {Undefined, Some(-1), Some(0), Some(1)}]

\* `!args.topic_id`, `!args.url`
Given(arg) == arg # Undefined /\ arg[1] # <<>>

\* the locals of getTopic once the input is validated
Locals(args) ==
  [version |-> IF Given(args.version) THEN args.version[1] ELSE defaultVersion,
   maxChunks |-> IF args.max_chunks = Undefined THEN DefaultMaxChunks ELSE args.max_chunks[1],
   providerInput |-> IF args.url # Undefined /\ args.url[1].text # <<>>
                     THEN args.url[1].text ELSE args.topic_id[1],
   cacheKey |-> IF args.url # Undefined /\ args.url[1].text # <<>>
                THEN normalizeUrlToTopicId(args.url[1], args.url[1]) ELSE args.topic_id[1]]

\* the input checks of getTopic: the field refused, or "" when the input is valid
Refused(args) ==
  IF ~Given(args.topic_id) /\ ~(args.url # Undefined /\ args.url[1].text # <<>>)
  THEN "topic_id or url"
  ELSE IF args.max_chunks # Undefined /\ args.max_chunks[1] < 0 THEN "max_chunks"
  ELSE ""

\* faulty variant: the chunks are cut whatever max_chunks says
LimitedTopicAlways(topic, maxChunks) ==
  [topic EXCEPT !.body_chunks = SubSeq(topic.body_chunks, 1, MinOf({Len(topic.body_chunks), maxChunks}))]

\* the chunk limit applied to the value returned
LimitedTopic(topic, maxChunks) ==
  IF maxChunks > 0 /\ Len(topic.body_chunks) > maxChunks
  THEN [topic EXCEPT !.body_chunks = SubSeq(topic.body_chunks, 1, maxChunks)]
  ELSE topic

\* faulty variant: the cache is not asked
UseCachedNever(found) == FALSE

\* `if (topic)` after the cache read: the read did not throw and gave a topic
UseCached(found) == found.ok /\ found.value # Undefined

\* the error payload returned for what the provider threw
FetchError(failure, locals) ==
  CASE failure = "payload" -> [code |-> "PROVIDER_ERROR"]
    [] failure = "fetch failed" -> [code |-> "NETWORK_ERROR", url |-> locals.providerInput,
                                    retryable |-> TRUE]
    [] OTHER -> [code |-> "TOPIC_NOT_FOUND", topic_id |-> locals.cacheKey,
                 version |-> locals.version]

InitGetTopic ==
  /\ IndexIdle /\ ChunkerIdle /\ LimitIdle /\ ParserIdle /\ HybridIdle /\ RateIdle
  /\ gCache = [initialized |-> FALSE, files |-> <<>>]
  /\ gPc = "ready"
  /\ gCall = [n |-> 0]
  /\ gTopic = <<>> /\ gLog = <<>> /\ gHist = <<>> /\ gOut = <<>>

\* CacheManager.initialize()
Initialize ==
  /\ gPc = "ready"
  /\ ~gCache.initialized
  /\ gCache' = [gCache EXCEPT !.initialized = TRUE]
  /\ UNCHANGED <<gPc, gCall, gTopic, gLog, gHist, gOut,
                 indexVars, chunkerVars, limitVars, parserVars, hybridVars, rateVars>>

\* getTopic(args, provider, cache) is called: invalid input is answered at once
GetTopic ==
  /\ gPc = "ready"
  /\ gCall.n < MaxGets
  /\ \E args \in GetTopicArgs :
       IF Refused(args) # ""
       THEN /\ gCall' = [n |-> gCall.n + 1, args |-> args]
            /\ gOut' = [code |-> "INVALID_INPUT", field |-> Refused(args)]
            /\ gPc' = "ready"
       ELSE /\ gCall' = [n |-> gCall.n + 1, args |-> args] @@ Locals(args)
            /\ gOut' = <<>>
            /\ gPc' = "cacheGet"
  /\ gLog' = <<>>
  /\ gTopic' = <<>>
  /\ UNCHANGED <<gCache, gHist, indexVars, chunkerVars, limitVars, parserVars, hybridVars, rateVars>>

\* await cache.get(cacheKey, version): a topic found is returned, limited
CacheRead ==
  /\ gPc = "cacheGet"
  /\ \E readable \in BOOLEAN :
       LET found == CacheGet(gCache, gCall.cacheKey, gCall.version, readable)
       IN  IF UseCached(found)
           THEN /\ gTopic' = found.value[1]
                /\ gOut' = LimitedTopic(found.value[1], gCall.maxChunks)
                /\ gLog' = Append(gLog, "hit")
                /\ gPc' = "ready"
           ELSE /\ gLog' = Append(gLog, IF ~found.ok THEN "read error"
                                         ELSE IF readable THEN "miss" ELSE "unreadable")
                /\ gPc' = "fetch"
                /\ UNCHANGED <<gTopic, gOut>>
  /\ UNCHANGED <<gCache, gCall, gHist, indexVars, chunkerVars, limitVars, parserVars, hybridVars, rateVars>>

\* await provider.fetchTopic(providerInput, version) resolves
ProviderReturns ==
  /\ gPc = "fetch"
  /\ \E served \in Served :
       gTopic' = ProviderTopic(gCall.providerInput, gCall.version, served)
  /\ gLog' = Append(gLog, "fetched")
  /\ gPc' = "cacheSet"
  /\ UNCHANGED <<gCache, gCall, gHist, gOut, indexVars, chunkerVars, limitVars, parserVars, hybridVars, rateVars>>

\* await provider.fetchTopic(providerInput, version) rejects
ProviderFails ==
  /\ gPc = "fetch"
  /\ \E failure \in ProviderFailures : gOut' = FetchError(failure, gCall)
  /\ gLog' = Append(gLog, "fetch failed")
  /\ gPc' = "ready"
  /\ UNCHANGED <<gCache, gCall, gTopic, gHist, indexVars, chunkerVars, limitVars, parserVars, hybridVars, rateVars>>

\* await cache.set(cacheKey, version, topic), then the topic is returned, limited
CacheWrite ==
  /\ gPc = "cacheSet"
  /\ \E writable \in BOOLEAN :
       LET written == CacheSet(gCache, gCall.cacheKey, gCall.version, gTopic, writable)
       IN  IF written.ok
           THEN /\ gCache' = written.value
                /\ gHist' = (CachePath(gCall.cacheKey, gCall.version) :> gTopic) @@ gHist
                /\ gLog' = Append(gLog, "written")
           ELSE /\ gLog' = Append(gLog, "write error")
                /\ UNCHANGED <<gCache, gHist>>
  /\ gOut' = LimitedTopic(gTopic, gCall.maxChunks)
  /\ gPc' = "ready"
  /\ UNCHANGED <<gCall, gTopic, indexVars, chunkerVars, limitVars, parserVars, hybridVars, rateVars>>

NextGetTopic ==
  Initialize \/ GetTopic \/ CacheRead \/ ProviderReturns \/ ProviderFails \/ CacheWrite

SpecGetTopic == InitGetTopic /\ [][NextGetTopic]_vars

(***************************************************************************)
(* Claims about getTopic and the cache                                     *)
(***************************************************************************)
\* the file of the call's (cacheKey, version)
CallPath == CachePath(gCall.cacheKey, gCall.version)

\* the call went past the input checks and has returned
Answered == gPc = "ready" /\ gLog # <<>>

ProviderCalls == SelectSeq(gLog, LAMBDA e : e \in {"fetched", "fetch failed"})

\* what holds of every state of a getTopic call
CacheFirst ==
  /\ gLog # <<>> => gLog[1] \in {"hit", "miss", "unreadable", "read error"}
  /\ (gLog # <<>> /\ gLog[1] = "hit") => gLog = <<"hit">> /\ gPc = "ready"
  /\ Len(ProviderCalls) <= 1
  /\ (Answered /\ gLog[1] # "hit") => Len(ProviderCalls) = 1
  /\ (Answered /\ Len(gLog) >= 2 /\ gLog[2] = "fetched") =>
       /\ Len(gLog) = 3 /\ gLog[3] \in {"written", "write error"}
       /\ gLog[3] = "written" =>
            /\ CallPath \in DOMAIN gCache.files
            /\ Parse(gCache.files[CallPath]) = gTopic
       /\ gOut = LimitedTopic(gTopic, gCall.maxChunks)
       /\ "code" \notin DOMAIN gOut

\* a cache read for a (key, version) whose file was written is a hit, unless
\* the file cannot be read; the hit returns the topic written, with no provider call
ServedFromCache ==
  (gPc = "cacheGet" /\ gCache.initialized /\ CallPath \in DOMAIN gHist) =>
    /\ gLog' \in {<<"hit">>, <<"unreadable">>}
    /\ gLog' = <<"hit">> =>
         /\ gPc' = "ready"
         /\ gOut' = LimitedTopic(gHist[CallPath], gCall.maxChunks)

\* C23: getTopic reads the cache before it calls the provider; on a hit the
\* provider is not called; on a miss it is called once and a topic it returns
\* is written to the cache under the same (key, version), so that a later
\* getTopic for that key and version is served from the cache with no
\* provider call; a cache read or write error never makes an error result of
\* a successful fetch.
C23_CacheFirst == []CacheFirst /\ [][ServedFromCache]_vars

\* the second call found the topic the first call had fetched and written
W_C23_SecondCallHit ==
  /\ gPc = "ready"
  /\ gCall.n = 2
  /\ gLog = <<"hit">>
  /\ CallPath \in DOMAIN gHist
  /\ gTopic = gHist[CallPath]
  /\ "code" \notin DOMAIN gOut

\* the cache could not be written and the fetched topic was returned all the same
W_C23_WriteError ==
  /\ gPc = "ready"
  /\ gLog = <<"miss", "fetched", "write error">>
  /\ gOut = LimitedTopic(gTopic, gCall.maxChunks)

\* the chunks a provider topic can have
ServedChunks == {[i \in 1..served.n |-> [chunk_index |-> i - 1]] : served \in Served}

\* the first min(maxChunks, n) chunks when maxChunks > 0, every chunk otherwise
FirstChunks(chunks, maxChunks) ==
  IF maxChunks > 0 THEN SubSeq(chunks, 1, MinOf({maxChunks, Len(chunks)})) ELSE chunks

\* C30: the chunk limit of getTopic cuts the returned value only: every file
\* of the cache holds every chunk the provider returned, the topic a call
\* works on (fetched or read from the cache) is whole, and a call that
\* returns a topic returns its first min(max_chunks, n) chunks when
\* max_chunks > 0 and all n chunks when max_chunks = 0.
C30_LimitOnlyReturned ==
  /\ \A p \in DOMAIN gCache.files : gCache.files[p].body_chunks \in ServedChunks
  /\ gTopic # <<>> => gTopic.body_chunks \in ServedChunks
  /\ (gPc = "ready" /\ gTopic # <<>>) =>
       /\ gOut.body_chunks = FirstChunks(gTopic.body_chunks, gCall.maxChunks)
       /\ [gOut EXCEPT !.body_chunks = gTopic.body_chunks] = gTopic

\* one chunk of four was returned and the file written holds all four
W_C30_CutReturnedWholeCached ==
  /\ gPc = "ready"
  /\ gLog = <<"miss", "fetched", "written">>
  /\ gCall.maxChunks = 1
  /\ Len(gOut.body_chunks) = 1
  /\ Len(gCache.files[CallPath].body_chunks) = 4

\* a call without limit, served from the cache, returned all four chunks
W_C30_NoLimitAfterCut ==
  /\ gPc = "ready" /\ gCall.n = 2 /\ gLog = <<"hit">>
  /\ gCall.maxChunks = 0
  /\ Len(gOut.body_chunks) = 4

(***************************************************************************)
(* The cache manager called directly: set and get in any order, on topic   *)
(* ids and versions that differ only in characters the sanitizers replace. *)
(* gHist maps each <<topicId, version>> to the topic last set for it.      *)
(***************************************************************************)
MaxCacheOps == 3

CacheIds      == {<<"a", "/", "b">>, <<"a", "_", "b">>, <<"a", ":", "b">>, <<"a", "b">>}
CacheVersions == {<<"v", "1">>, <<"v", SP, "1">>, <<"v", "_", "1">>, <<".">>, <<>>}

InitCache ==
  /\ IndexIdle /\ ChunkerIdle /\ LimitIdle /\ ParserIdle /\ HybridIdle /\ RateIdle
  /\ gCache = [initialized |-> FALSE, files |-> <<>>]
  /\ gPc = "ready"
  /\ gCall = [n |-> 0]
  /\ gTopic = <<>> /\ gLog = <<>> /\ gHist = <<>> /\ gOut = <<>>

\* await cache.set(topicId, version, topic)
SetCached ==
  /\ gPc = "ready"
  /\ gCall.n < MaxCacheOps
  /\ \E topicId \in CacheIds, version \in CacheVersions, served \in Served, writable \in BOOLEAN :
       LET topic   == ProviderTopic(topicId, version, served)
           written == CacheSet(gCache, topicId, version, topic, writable)
       IN  /\ gCall' = [n |-> gCall.n + 1, op |-> "set", topicId |-> topicId, version |-> version]
           /\ IF written.ok
              THEN /\ gCache' = written.value
                   /\ gHist' = (<<topicId, version>> :> topic) @@ gHist
                   /\ gOut' = <<>>
              ELSE /\ gOut' = [thrown |-> written.message]
                   /\ UNCHANGED <<gCache, gHist>>
  /\ UNCHANGED <<gPc, gTopic, gLog, indexVars, chunkerVars, limitVars, parserVars, hybridVars, rateVars>>

\* await cache.get(topicId, version)
GetCached ==
  /\ gPc = "ready"
  /\ gCall.n < MaxCacheOps
  /\ \E topicId \in CacheIds, version \in CacheVersions, readable \in BOOLEAN :
       LET found == CacheGet(gCache, topicId, version, readable)
       IN  /\ gCall' = [n |-> gCall.n + 1, op |-> "get", topicId |-> topicId, version |-> version]
           /\ gOut' = IF found.ok THEN [value |-> found.value] ELSE [thrown |-> found.message]
  /\ UNCHANGED <<gCache, gPc, gTopic, gLog, gHist, indexVars, chunkerVars, limitVars, parserVars, hybridVars, rateVars>>

NextCache == Initialize \/ SetCached \/ GetCached

SpecCache == InitCache /\ [][NextCache]_vars

\* get returned a topic
GotTopic ==
  /\ gCall.n > 0 /\ gCall.op = "get"
  /\ "value" \in DOMAIN gOut /\ gOut.value # Undefined

\* C29: get(topicId, version) returns a topic only if set was called with
\* that topicId and that version, and then the topic last set for the pair;
\* a topic stored under another topicId or version is never returned.
C29_KeysIsolated ==
  GotTopic =>
    /\ <<gCall.topicId, gCall.version>> \in DOMAIN gHist
    /\ gOut.value[1] = gHist[<<gCall.topicId, gCall.version>>]

(***************************************************************************)
(* lib/utils/rate-limiter.ts                                               *)
(*                                                                         *)
(* One RateLimiter shared by the callers of waitForSlot and by plain       *)
(* check() calls.  JavaScript runs one callback at a time, so check(),     *)
(* which has no await in it, is one step, and so is the stretch of         *)
(* waitForSlot between two awaits.  Time is Date.now(), taken as never     *)
(* going back, in units of the 100 ms buffer of waitForSlot; a timestamp   *)
(* is kept as its age, now - timestamp, and an age is not counted beyond   *)
(* AgeCap, where neither the filter nor the wait time tells it apart.      *)
(***************************************************************************)
maxRequests == 2
windowMs    == 2
BufferMs    == 1
MaxCallers  == 3
MaxChecks   == 2

Callers == 1..MaxCallers
AgeCap  == windowMs + BufferMs

\* faulty variant: no timestamp ever leaves the window
InWindowForever(requests) == requests

\* requests.filter(timestamp => timestamp > now - windowMs)
InWindow(requests) == SelectSeq(requests, LAMBDA age : age < windowMs)

\* faulty variant: one request too many is let through
AtLimitLate(requests) == Len(requests) > maxRequests

\* `this.state.requests.length >= this.maxRequests`
AtLimit(requests) == Len(requests) >= maxRequests

\* check(): whether the request is allowed, and state.requests afterwards
check(requests) ==
  LET kept == InWindow(requests)
  IN  IF AtLimit(kept) THEN [allowed |-> FALSE, requests |-> kept]
      ELSE [allowed |-> TRUE, requests |-> Append(kept, 0)]

\* oldestRequest + windowMs - Date.now() + 100; NaN, here 0, when there is
\* no oldest request
waitTime(requests) ==
  IF requests = <<>> THEN 0 ELSE windowMs - requests[1] + BufferMs

Older(ages) == [i \in DOMAIN ages |-> MinOf({ages[i] + 1, AgeCap})]

InitRate ==
  /\ IndexIdle /\ ChunkerIdle /\ LimitIdle /\ ParserIdle /\ HybridIdle /\ GetTopicIdle
  /\ rRequests = <<>> /\ rGrants = <<>>
  /\ rPc = [c \in Callers |-> "idle"]
  /\ rAllowed = [c \in Callers |-> FALSE]
  /\ rTimer = [c \in Callers |-> 0]
  /\ rChecks = 0

RateFrame == UNCHANGED <<indexVars, chunkerVars, limitVars, parserVars, hybridVars, getTopicVars>>

\* a caller calls waitForSlot()
WaitForSlot(c) ==
  /\ rPc[c] = "idle"
  /\ rPc' = [rPc EXCEPT ![c] = "check"]
  /\ UNCHANGED <<rRequests, rGrants, rAllowed, rTimer, rChecks>>
  /\ RateFrame

\* the loop condition of waitForSlot calls check()
SlotCheck(c) ==
  /\ rPc[c] = "check"
  /\ LET checked == check(rRequests)
     IN  /\ rRequests' = checked.requests
         /\ rAllowed' = [rAllowed EXCEPT ![c] = checked.allowed]
         /\ rGrants' = IF checked.allowed THEN Append(rGrants, 0) ELSE rGrants
  /\ rPc' = [rPc EXCEPT ![c] = "checked"]
  /\ UNCHANGED <<rTimer, rChecks>>
  /\ RateFrame

\* `await this.check()` resumes: the loop ends, or the caller sets a timer,
\* or goes round at once when there is nothing to wait for
SlotResume(c) ==
  /\ rPc[c] = "checked"
  /\ IF rAllowed[c]
     THEN /\ rPc' = [rPc EXCEPT ![c] = "done"]
          /\ UNCHANGED rTimer
     ELSE IF waitTime(rRequests) > 0
     THEN /\ rPc' = [rPc EXCEPT ![c] = "sleep"]
          /\ rTimer' = [rTimer EXCEPT ![c] = waitTime(rRequests)]
     ELSE /\ rPc' = [rPc EXCEPT ![c] = "check"]
          /\ UNCHANGED rTimer
  /\ UNCHANGED <<rRequests, rGrants, rAllowed, rChecks>>
  /\ RateFrame

\* the timer of a sleeping caller fires
SlotWake(c) ==
  /\ rPc[c] = "sleep"
  /\ rTimer[c] = 0
  /\ rPc' = [rPc EXCEPT ![c] = "check"]
  /\ UNCHANGED <<rRequests, rGrants, rAllowed, rTimer, rChecks>>
  /\ RateFrame

\* someone calls check() on its own
PlainCheck ==
  /\ rChecks < MaxChecks
  /\ rChecks' = rChecks + 1
  /\ LET checked == check(rRequests)
     IN  /\ rRequests' = checked.requests
         /\ rGrants' = IF checked.allowed THEN Append(rGrants, 0) ELSE rGrants
  /\ UNCHANGED <<rPc, rAllowed, rTimer>>
  /\ RateFrame

\* one unit of time passes
Tick ==
  /\ rRequests' = Older(rRequests)
  /\ rGrants' = Older(rGrants)
  /\ rTimer' = [c \in Callers |-> IF rTimer[c] > 0 THEN rTimer[c] - 1 ELSE 0]
  /\ UNCHANGED <<rPc, rAllowed, rChecks>>
  /\ RateFrame

SlotStep(c) == SlotCheck(c) \/ SlotResume(c) \/ SlotWake(c)

\* the callers of waitForSlot and the clock
NextSlots ==
  \/ \E c \in Callers : WaitForSlot(c)
  \/ \E c \in Callers : SlotCheck(c)
  \/ \E c \in Callers : SlotResume(c)
  \/ \E c \in Callers : SlotWake(c)
  \/ Tick

NextRate == NextSlots \/ PlainCheck

SpecRate == InitRate /\ [][NextRate]_vars

\* waitForSlot callers alone (a stream of plain check() calls that never ends
\* could take every slot); the event loop runs every callback that is ready,
\* and time goes on
SpecRateFair ==
  /\ InitRate /\ [][NextSlots]_vars
  /\ WF_vars(Tick)
  /\ \A c \in Callers : WF_vars(SlotStep(c))

\* the requests granted in the window (now - windowMs, now]
GrantedInWindow == SelectSeq(rGrants, LAMBDA age : age < windowMs)

\* C24: whatever the interleaving of check() and waitForSlot() calls, the
\* number of requests granted in a window (t - windowMs, t] is never more
\* than maxRequests.  (Every window ends at the now of some state, and all
\* grants of that instant are made when the last state of the instant is
\* reached, so the windows ending now are all the windows.)
C24_WindowNeverExceeded == Len(GrantedInWindow) <= maxRequests

\* more requests were granted than one window allows, the window is full and
\* a caller is waiting for it to open
W_C24_FullWindowWaiter ==
  /\ Len(rGrants) > maxRequests
  /\ Len(GrantedInWindow) = maxRequests
  /\ \E c \in Callers : rPc[c] = "sleep"

\* C25: every waitForSlot() call is resolved in the end, with more callers
\* than maxRequests too.
C25_EveryCallerGranted ==
  \A c \in Callers : (rPc[c] # "idle") ~> (rPc[c] = "done")

\* every caller was granted a slot, there are more callers than slots in a
\* window, and the grants do not all lie in the window that ends now
W_C25_AllGranted ==
  /\ MaxCallers > maxRequests
  /\ \A c \in Callers : rPc[c] = "done"
  /\ Len(rGrants) = MaxCallers
  /\ Len(GrantedInWindow) < MaxCallers

\* C26: every chunk chunkBodyText or chunkTopic returns carries the estimate
\* of its own text: token_count = ceil(L / 4), L the length of the chunk's
\* (trimmed) text.
C26_CountOfOwnText ==
  cPc \in {"body", "topic"} =>
    \A i \in 1..Len(cOut) : cOut[i].token_count = (Len(cOut[i].text) + 3) \div 4

\* C27: chunkBodyText drops no body content: every non-blank paragraph of
\* every section of the body text occurs in the text of a returned chunk.
C27_NoParagraphDropped ==
  cPc = "body" =>
    \A k \in 1..Len(BodySections) :
      \A q \in 1..Len(Paragraphs(BodySections[k].content)) :
        \E i \in 1..Len(cOut) :
          Contains(cOut[i].text, trim(Paragraphs(BodySections[k].content)[q]))

(***************************************************************************)
(* The index with versions and ids that hold a ':'                         *)
(***************************************************************************)
ColonIds      == {<<"b", ":", "c">>, <<"c">>, <<"x">>}
ColonVersions == {<<"a">>, <<"a", ":", "b">>}

\* per (version, id) two records, both with the term "a"
ColonTopics ==
  {[id |-> i, version |-> v, section |-> c.section, title |-> c.title, summary |-> c.summary,
    body_chunks |-> c.body_chunks, url |-> <<"/">> \o i, source |-> "online"] :
     i \in ColonIds, v \in ColonVersions,
     c \in {k \in Contents : k.title \in {<<"a">>, <<"b">>}}}

ColonEntryTable == [topic \in ColonTopics |-> NewEntry(topic)]

AddColonTopic == AddTopicFrom(ColonEntryTable, TRUE)

SearchColon == SearchWith({<<"a">>}, {Undefined}, {Undefined}, {Undefined})

NextColon == AddColonTopic \/ Clear \/ SearchColon \/ Return

SpecColon == Init /\ [][NextColon]_vars

\* C28: records whose (version, id) pairs differ never share an index entry,
\* whatever the strings are: the index holds one entry for each pair added
\* since the last clear(), and a search with no filter that matches every
\* record returns one result for each pair.
C28_PairsNeverShare ==
  /\ Len(index) = Len(addedAs)
  /\ pc = "returned" => Len(result) = Len(addedAs)

====
